---- MODULE Spec2Model ----
(***************************************************************************)
(* A model of the qcow2 image library: the backing file, the table codec   *)
(* and its cache, the entry model, the refcount engine, the cluster engine *)
(* and the image facade with its streaming cursor.                         *)
(*                                                                         *)
(* Representation.  A 64-bit byte offset x = c * clusterSize + o is kept   *)
(* as the pair <<c, o>> with 0 <= o < clusterSize, so that disks and host  *)
(* files beyond 2^31 bytes stay inside TLC's 32-bit integers.  The        *)
(* backing file is its length plus the map of its nonzero bytes; a byte    *)
(* that is not in the map is zero.  A byte buffer is its length plus the   *)
(* map of its nonzero bytes.  A 64-bit word is the tuple of its eight      *)
(* bytes, most significant first, which is also its big-endian encoding.   *)
(***************************************************************************)
EXTENDS Integers, Sequences, FiniteSets, TLC

\* ------------------------------------------------------------------------
\* Program constants
\* ------------------------------------------------------------------------
ClusterBits == 16

RefcountOrder == 4

clusterSize == 2 ^ ClusterBits

refcountBits == 2 ^ RefcountOrder

l2Entries == clusterSize \div 8

\* ------------------------------------------------------------------------
\* 64-bit offsets as pairs <<cluster, byte in cluster>>
\* ------------------------------------------------------------------------
Off(c, o) == <<c + (o \div clusterSize), o % clusterSize>>

OffAdd(x, n) == Off(x[1], x[2] + n)

OffLt(x, y) == x[1] < y[1] \/ (x[1] = y[1] /\ x[2] < y[2])

OffLe(x, y) == x = y \/ OffLt(x, y)

\* x - y as a plain integer; used only where the difference is small
OffSub(x, y) == (x[1] - y[1]) * clusterSize + (x[2] - y[2])

\* ------------------------------------------------------------------------
\* Byte buffers ([]byte)
\* ------------------------------------------------------------------------
NoBytes == [i \in {} |-> 0]

MkBuf(n, v) == [len |-> n, nz |-> [i \in 0..(n - 1) |-> v]]

ZeroBuf(n) == [len |-> n, nz |-> NoBytes]

BufAt(p, i) == IF i \in DOMAIN p.nz THEN p.nz[i] ELSE 0

\* p[a:b]
BufSlice(p, a, b) ==
    [len |-> b - a,
     nz  |-> [i \in {j - a : j \in {k \in DOMAIN p.nz : k >= a /\ k < b}}
                |-> p.nz[i + a]]]

\* append(p, q...)
BufCat(p, q) ==
    [len |-> p.len + q.len,
     nz  |-> [i \in DOMAIN p.nz \cup {j + p.len : j \in DOMAIN q.nz}
                |-> IF i \in DOMAIN p.nz THEN p.nz[i] ELSE q.nz[i - p.len]]]

min(a, b) == IF a < b THEN a ELSE b

\* v := ...; F(v): the statements of F with the value of v in hand
Bind(v, F(_)) == F(v)

\* ------------------------------------------------------------------------
\* The backing file (os.File): positioned reads and writes
\* ------------------------------------------------------------------------
EmptyFile == [size |-> <<0, 0>>, bytes |-> [k \in {} |-> 0]]

\* f.ReadAt(buf, off) with len(buf) = n: the bytes read; fewer than n
\* bytes come back (with io.EOF) when the range passes the end of the file
fReadAt(f, off, n) ==
    LET avail == IF OffLe(OffAdd(off, n), f.size) THEN n
                 ELSE IF OffLt(off, f.size) THEN OffSub(f.size, off)
                 ELSE 0
        end   == OffAdd(off, avail)
        keys  == {k \in DOMAIN f.bytes : OffLe(off, k) /\ OffLt(k, end)}
    IN  [len |-> avail,
         nz  |-> [i \in {OffSub(k, off) : k \in keys} |-> f.bytes[OffAdd(off, i)]]]

\* f.WriteAt(p, off): overwrites [off, off+len(p)), extending the file
\* (a gap past the old end reads as zeros)
fWriteAt(f, off, p) ==
    LET end  == OffAdd(off, p.len)
        keep == {k \in DOMAIN f.bytes : OffLt(k, off) \/ OffLe(end, k)}
        new  == {OffAdd(off, i) : i \in DOMAIN p.nz}
    IN  [size  |-> IF OffLt(f.size, end) THEN end ELSE f.size,
         bytes |-> [k \in keep \cup new |->
                       IF k \in new THEN p.nz[OffSub(k, off)] ELSE f.bytes[k]]]

\* newOffsetWriter(f, offset).Write(p)
offsetWriterWrite(f, offset, p) == fWriteAt(f, offset, p)

\* newOffsetReader(f, offset).Read(p) with len(p) = n
offsetReaderRead(f, offset, n) == fReadAt(f, offset, n)

\* zeroReader{}.Read(p) with len(p) = n
zeroReaderRead(n) == ZeroBuf(n)

\* ------------------------------------------------------------------------
\* 64-bit and 32-bit words, big-endian
\* ------------------------------------------------------------------------
Zero64 == <<0, 0, 0, 0, 0, 0, 0, 0>>

\* uint64(x) of an offset below 2^47
U64(x) ==
    <<0, 0, (x[1] \div 16777216) % 256, (x[1] \div 65536) % 256,
      (x[1] \div 256) % 256, x[1] % 256, x[2] \div 256, x[2] % 256>>

\* int64(u) of a word below 2^47
OffOfU64(u) ==
    <<u[3] * 16777216 + u[4] * 65536 + u[5] * 256 + u[6], u[7] * 256 + u[8]>>

U32(v) == <<v \div 16777216, (v \div 65536) % 256, (v \div 256) % 256, v % 256>>

IntOfU32(b) == b[1] * 16777216 + b[2] * 65536 + b[3] * 256 + b[4]

\* u & ((1<<48 - 1) << 9): bits 9..56
MaskHostOffset(u) ==
    <<u[1] % 2, u[2], u[3], u[4], u[5], u[6], (u[7] \div 2) * 2, 0>>

\* u &^ ((1 << 9) - 1): bits 9..63
MaskLow9(u) ==
    <<u[1], u[2], u[3], u[4], u[5], u[6], (u[7] \div 2) * 2, 0>>

\* u | (1 << 63)
SetBit63(u) ==
    <<IF u[1] >= 128 THEN u[1] ELSE u[1] + 128,
      u[2], u[3], u[4], u[5], u[6], u[7], u[8]>>

\* ------------------------------------------------------------------------
\* Entry model (types.go)
\* ------------------------------------------------------------------------
NewL1TableEntry(offset) == SetBit63(MaskHostOffset(U64(offset)))

L1Offset(e) == OffOfU64(MaskHostOffset(e))

\* NewL2TableEntry(hdr, offset, false, 0)
NewL2TableEntry(offset) == SetBit63(MaskHostOffset(U64(offset)))

L2Compressed(e) == (e[1] \div 64) % 2 = 1

\* L2TableEntry.Offset of an entry that is not compressed
L2Offset(e) == OffOfU64(MaskHostOffset(e))

\* ------------------------------------------------------------------------
\* Table codec and cache (table.go).  A table is its entry count and the
\* map of its nonzero entries.
\* ------------------------------------------------------------------------
TableAt(t, i) == IF i \in DOMAIN t.e THEN t.e[i] ELSE Zero64

\* Image.tableLoader: read 8*n bytes, decode n big-endian words; a short
\* read is an error
tableLoader(f, imageOffset, n) ==
    Bind(fReadAt(f, imageOffset, 8 * n), LAMBDA buf :
        [err |-> buf.len < 8 * n,
         t   |-> [n |-> n,
                  e |-> [i \in {k \div 8 : k \in DOMAIN buf.nz} |->
                            [j \in 1..8 |-> BufAt(buf, 8 * i + j - 1)]]]])

EmptyCache == [k \in {} |-> 0]

\* Image.readTable: tableCache.Get(tableKey{imageOffset, n}), loading the
\* table on a miss.  The result is the cached array itself.
readTable(cache, f, imageOffset, n) ==
    LET key == <<imageOffset, n>>
    IN  IF key \in DOMAIN cache
        THEN [err |-> FALSE, t |-> cache[key], cache |-> cache]
        ELSE Bind(tableLoader(f, imageOffset, n), LAMBDA l :
                 IF l.err
                 THEN [err |-> TRUE, t |-> l.t, cache |-> cache]
                 ELSE [err |-> FALSE, t |-> l.t,
                       cache |-> [k \in DOMAIN cache \cup {key} |->
                                     IF k = key THEN l.t ELSE cache[k]]])

\* the bytes writeTable puts in the file: every entry, big-endian
\* (binary.BigEndian.PutUint64 per entry)
EncodeTable(t) ==
    [len |-> 8 * t.n,
     nz  |-> [k \in {x \in {8 * i + j : i \in DOMAIN t.e, j \in 0..7} :
                        t.e[x \div 8][(x % 8) + 1] # 0} |->
                 t.e[k \div 8][(k % 8) + 1]]]

\* Image.writeTable: the file after f.WriteAt(buf, imageOffset).  The
\* Invalidate call that follows is keyed by a *tableKey, while the cache is
\* keyed by tableKey values, so it removes nothing.
writeTable(f, imageOffset, t) == fWriteAt(f, imageOffset, EncodeTable(t))

\* t[i] = v on the array readTable returned
TableSet(t, i, v) ==
    [n |-> t.n,
     e |-> [k \in (DOMAIN t.e \cup {i}) \ (IF v = Zero64 THEN {i} ELSE {}) |->
               IF k = i THEN v ELSE t.e[k]]]

\* ------------------------------------------------------------------------
\* Header (header.go, types.go)
\* ------------------------------------------------------------------------
Magic == <<81, 70, 73, 251>>

Version3 == 3

NoEncryption == 0

HeaderLength == 104

EndOfHeaderExtensionArea == <<0, 0, 0, 0>>

BackingFileFormatName == <<226, 121, 42, 202>>

ExternalDataFileName == <<68, 65, 84, 65>>

FullDiskEncryptionHeader == <<5, 55, 190, 119>>

BufOfSeq(s) ==
    [len |-> Len(s),
     nz  |-> [i \in {j - 1 : j \in {k \in 1..Len(s) : s[k] # 0}} |-> s[i + 1]]]

\* binary.Write(&encodedHdr, binary.BigEndian, hdr)
EncodeHeader(hdr) ==
    hdr.Magic \o U32(hdr.Version) \o hdr.BackingFileOffset
      \o U32(hdr.BackingFileSize) \o U32(hdr.ClusterBits) \o U64(hdr.Size)
      \o U32(hdr.CryptMethod) \o U32(hdr.L1Size) \o U64(hdr.L1TableOffset)
      \o U64(hdr.RefcountTableOffset) \o U32(hdr.RefcountTableClusters)
      \o U32(hdr.NbSnapshots) \o hdr.SnapshotsOffset
      \o hdr.IncompatibleFeatures \o hdr.CompatibleFeatures
      \o hdr.AutoclearFeatures \o U32(hdr.RefcountOrder)
      \o U32(hdr.HeaderLength)

\* binary.Read(f, binary.BigEndian, &hdr) on the 104 bytes in buf
DecodeHeader(buf) ==
    LET B4(i) == <<BufAt(buf, i), BufAt(buf, i + 1), BufAt(buf, i + 2),
                   BufAt(buf, i + 3)>>
        B8(i) == B4(i) \o B4(i + 4)
    IN  [Magic                 |-> B4(0),
         Version               |-> IntOfU32(B4(4)),
         BackingFileOffset     |-> B8(8),
         BackingFileSize       |-> IntOfU32(B4(16)),
         ClusterBits           |-> IntOfU32(B4(20)),
         Size                  |-> OffOfU64(B8(24)),
         CryptMethod           |-> IntOfU32(B4(32)),
         L1Size                |-> IntOfU32(B4(36)),
         L1TableOffset         |-> OffOfU64(B8(40)),
         RefcountTableOffset   |-> OffOfU64(B8(48)),
         RefcountTableClusters |-> IntOfU32(B4(56)),
         NbSnapshots           |-> IntOfU32(B4(60)),
         SnapshotsOffset       |-> B8(64),
         IncompatibleFeatures  |-> B8(72),
         CompatibleFeatures    |-> B8(80),
         AutoclearFeatures     |-> B8(88),
         RefcountOrder         |-> IntOfU32(B4(96)),
         HeaderLength          |-> IntOfU32(B4(100))]

\* k zero-filled clusters written one after the other from cluster c on
RECURSIVE writeZeroClusters(_, _, _)
writeZeroClusters(f, c, k) ==
    IF k <= 0 THEN f
    ELSE writeZeroClusters(fWriteAt(f, <<c, 0>>, ZeroBuf(clusterSize)), c + 1, k - 1)

\* the header fields writeHeader computes for a disk of the given size
headerFor(size) ==
    LET totalClusters        == 1 + size[1]
        l2TableClusters      == 1 + totalClusters \div l2Entries
        refcountBlockEntries == clusterSize \div refcountBits
        totalRefcountBlocks  == 1 + totalClusters \div refcountBlockEntries
    IN  [Magic                 |-> Magic,
         Version               |-> Version3,
         BackingFileOffset     |-> Zero64,
         BackingFileSize       |-> 0,
         ClusterBits           |-> ClusterBits,
         Size                  |-> size,
         CryptMethod           |-> NoEncryption,
         L1Size                |-> l2TableClusters,
         L1TableOffset         |-> <<1, 0>>,
         RefcountTableOffset   |-> <<2 + l2TableClusters, 0>>,
         RefcountTableClusters |-> 1 + totalRefcountBlocks \div (clusterSize \div 8),
         NbSnapshots           |-> 0,
         SnapshotsOffset       |-> Zero64,
         IncompatibleFeatures  |-> Zero64,
         CompatibleFeatures    |-> Zero64,
         AutoclearFeatures     |-> Zero64,
         RefcountOrder         |-> RefcountOrder,
         HeaderLength          |-> HeaderLength]

\* writeHeader(f, size): the file after the L1 table, the L2 tables, the
\* refcount table, the refcount blocks and, last, the header cluster
writeHeader(f, size) ==
    LET hdr                 == headerFor(size)
        totalClusters       == 1 + size[1]
        l2TableClusters     == hdr.L1Size
        totalRefcountBlocks == 1 + totalClusters \div (clusterSize \div refcountBits)
        rtc                 == hdr.RefcountTableClusters
        l1Table == [n |-> clusterSize \div 8,
                    e |-> [i \in 0..(l2TableClusters - 1) |->
                              NewL1TableEntry(<<1 + (i + 1), 0>>)]]
        f1 == writeTable(f, <<1, 0>>, l1Table)
        f2 == writeZeroClusters(f1, 2, l2TableClusters)
        rtCluster == 2 + l2TableClusters
        refcountTable == [n |-> (rtc * clusterSize) \div 8,
                          e |-> [i \in 0..(totalRefcountBlocks - 1) |->
                                    MaskLow9(U64(<<rtCluster + i + rtc, 0>>))]]
        f3 == writeTable(f2, <<rtCluster, 0>>, refcountTable)
        f4 == writeZeroClusters(f3, rtCluster + rtc, totalRefcountBlocks)
        encodedHdr == BufOfSeq(EncodeHeader(hdr) \o EndOfHeaderExtensionArea
                                 \o <<0, 0, 0, 0>>)
    IN  fWriteAt(f4, <<0, 0>>, [len |-> clusterSize, nz |-> encodedHdr.nz])

\* writeHeader(f, size) stopped after its first k writes to the file: the
\* L1 table, the L2 tables one by one, the refcount table, the refcount
\* blocks one by one, the header cluster
writeHeaderFirst(f, size, k) ==
    IF k >= 4 + headerFor(size).L1Size + (1 + size[1]) \div (clusterSize \div refcountBits)
    THEN writeHeader(f, size)
    ELSE IF k >= 1
    THEN fWriteAt(f, <<0, 0>>, fReadAt(writeHeader(f, size), <<0, 0>>, clusterSize))
    ELSE f

writeHeaderPrefix(f, size, k) ==
    LET hdr0                == headerFor(size)
        l2TableClusters     == hdr0.L1Size
        totalRefcountBlocks == 1 + (1 + size[1]) \div (clusterSize \div refcountBits)
        rtc                 == hdr0.RefcountTableClusters
        rtCluster           == 2 + l2TableClusters
        l1Table == [n |-> clusterSize \div 8,
                    e |-> [i \in 0..(l2TableClusters - 1) |->
                              NewL1TableEntry(<<1 + (i + 1), 0>>)]]
        refcountTable == [n |-> (rtc * clusterSize) \div 8,
                          e |-> [i \in 0..(totalRefcountBlocks - 1) |->
                                    MaskLow9(U64(<<rtCluster + i + rtc, 0>>))]]
        f1 == IF k >= 1 THEN writeTable(f, <<1, 0>>, l1Table) ELSE f
        f2 == writeZeroClusters(f1, 2, min(l2TableClusters, k - 1))
        f3 == IF k >= 2 + l2TableClusters
              THEN writeTable(f2, <<rtCluster, 0>>, refcountTable) ELSE f2
        f4 == writeZeroClusters(f3, rtCluster + rtc,
                                min(totalRefcountBlocks, k - 2 - l2TableClusters))
        encodedHdr == BufOfSeq(EncodeHeader(hdr0) \o EndOfHeaderExtensionArea
                                 \o <<0, 0, 0, 0>>)
    IN  IF k >= 3 + l2TableClusters + totalRefcountBlocks
        THEN fWriteAt(f4, <<0, 0>>, [len |-> clusterSize, nz |-> encodedHdr.nz])
        ELSE f4

\* the extension loop of readHeader from file position pos: TRUE when it
\* ends in an error
RECURSIVE readExtensions(_, _)
readExtensions(f, pos) ==
    LET m    == fReadAt(f, pos, 8)
        type == <<BufAt(m, 0), BufAt(m, 1), BufAt(m, 2), BufAt(m, 3)>>
        length == IntOfU32(<<BufAt(m, 4), BufAt(m, 5), BufAt(m, 6), BufAt(m, 7)>>)
    IN  IF m.len < 8 THEN TRUE
        ELSE IF type = EndOfHeaderExtensionArea THEN FALSE
        ELSE IF type \in {BackingFileFormatName, ExternalDataFileName,
                          FullDiskEncryptionHeader} THEN TRUE
        ELSE IF fReadAt(f, OffAdd(pos, 8), length).len < length THEN TRUE
        ELSE readExtensions(f, OffAdd(pos, 8 + length))

\* readHeader(f)
readHeader(f) ==
    Bind(fReadAt(f, <<0, 0>>, HeaderLength), LAMBDA buf :
    Bind(DecodeHeader(buf), LAMBDA hdr :
    Bind(fReadAt(f, <<0, HeaderLength>>, 8), LAMBDA add :
    Bind(hdr.HeaderLength > HeaderLength, LAMBDA hasAdditional :
        [hdr |-> hdr,
         err |-> \/ buf.len < HeaderLength
                 \/ hdr.Magic # Magic
                 \/ hdr.Version # Version3
                 \/ hdr.BackingFileOffset # Zero64
                 \/ hdr.CryptMethod # NoEncryption
                 \/ hdr.IncompatibleFeatures # Zero64
                 \/ (hasAdditional /\ add.len < 8)
                 \/ (hasAdditional /\ BufAt(add, 0) # 0)
                 \/ readExtensions(f, <<0, IF hasAdditional
                                           THEN HeaderLength + 8
                                           ELSE HeaderLength>>)]))))

\* ------------------------------------------------------------------------
\* Refcount engine
\* ------------------------------------------------------------------------
\* Image.diskToRefcountOffset
diskToRefcountOffset(cache, f, hdr, diskOffset) ==
    LET rcBits               == 2 ^ hdr.RefcountOrder
        refcountBlockEntries == (clusterSize * 8) \div rcBits
        refcountBlockIndex   == diskOffset[1] % refcountBlockEntries
        refcountTableIndex   == diskOffset[1] \div refcountBlockEntries
        refCountTableEntries == (hdr.RefcountTableClusters * clusterSize) \div 8
    IN  Bind(readTable(cache, f, hdr.RefcountTableOffset, refCountTableEntries),
             LAMBDA r :
            [err   |-> r.err,
             cache |-> r.cache,
             off   |-> OffAdd(OffOfU64(MaskLow9(TableAt(r.t, refcountTableIndex))),
                              refcountBlockIndex * rcBits)])

RECURSIVE readBitsLoop(_, _, _, _)
readBitsLoop(buf, nBits, bitIdx, bits) ==
    IF bitIdx >= nBits THEN bits
    ELSE LET byteIdx     == bitIdx \div 8
             bitPosition == 7 - (bitIdx % 8)
             bit         == (BufAt(buf, byteIdx) \div (2 ^ bitPosition)) % 2
         IN  readBitsLoop(buf, nBits, bitIdx + 1, bits * 2 + bit)

\* readBits(f, imageOffset, nBits)
readBits(f, imageOffset, nBits) ==
    LET nBytes == (nBits + 7) \div 8
    IN  Bind(fReadAt(f, imageOffset, nBytes), LAMBDA buf :
            [err |-> buf.len < nBytes, bits |-> readBitsLoop(buf, nBits, 0, 0)])

\* the byte array writeBits builds: bit bitIdx of the field, counted from
\* its most significant bit, goes to bit 7 - bitIdx % 8 of byte bitIdx / 8
RECURSIVE writeBitsLoop(_, _, _, _)
writeBitsLoop(buf, nBits, value, bitIdx) ==
    IF bitIdx >= nBits THEN buf
    ELSE LET set     == (value \div (2 ^ (nBits - 1 - bitIdx))) % 2 = 1
             byteIdx == bitIdx \div 8
         IN  writeBitsLoop(
                 IF set THEN [buf EXCEPT ![byteIdx] = @ + 2 ^ (7 - (bitIdx % 8))]
                        ELSE buf,
                 nBits, value, bitIdx + 1)

\* writeBits(f, imageOffset, nBits, value): the file afterwards
writeBits(f, imageOffset, nBits, value) ==
    LET nBytes == (nBits + 7) \div 8
    IN  Bind(writeBitsLoop([i \in 0..(nBytes - 1) |-> 0], nBits, value, 0),
             LAMBDA buf :
            fWriteAt(f, imageOffset,
                     [len |-> nBytes,
                      nz  |-> [i \in {j \in 0..(nBytes - 1) : buf[j] # 0} |->
                                  buf[i]]]))

\* Image.getRefcount
getRefcount(cache, f, hdr, diskOffset) ==
    Bind(diskToRefcountOffset(cache, f, hdr, diskOffset), LAMBDA o :
    Bind(readBits(f, o.off, 2 ^ hdr.RefcountOrder), LAMBDA b :
        [err |-> o.err \/ b.err, cache |-> o.cache, refcount |-> b.bits]))

\* Image.setRefcount
setRefcount(cache, f, hdr, diskOffset, refcount) ==
    Bind(diskToRefcountOffset(cache, f, hdr, diskOffset), LAMBDA o :
        [err |-> o.err, cache |-> o.cache,
         f   |-> IF o.err THEN f
                 ELSE writeBits(f, o.off, 2 ^ hdr.RefcountOrder, refcount)])

\* ------------------------------------------------------------------------
\* Cluster engine (cluster.go)
\* ------------------------------------------------------------------------
\* the L1/L2 walk shared by clusterReader, diskToImageOffset and
\* storeImageToDiskOffset: l1Table[l1Index], then the L2 table it names.
\* An index past the end of the L1 array is a run-time panic.
lookupL2(cache, f, hdr, diskOffset) ==
    LET l2Index == diskOffset[1] % l2Entries
        l1Index == diskOffset[1] \div l2Entries
    IN  Bind(readTable(cache, f, hdr.L1TableOffset, hdr.L1Size), LAMBDA r1 :
        Bind(L1Offset(TableAt(r1.t, l1Index)), LAMBDA l2TableOffset :
            IF r1.err
            THEN [err |-> TRUE, panic |-> FALSE, cache |-> r1.cache,
                  l2TableOffset |-> l2TableOffset, l2Table |-> r1.t,
                  l2Index |-> l2Index, l2Entry |-> Zero64]
            ELSE IF l1Index >= hdr.L1Size
            THEN [err |-> FALSE, panic |-> TRUE, cache |-> r1.cache,
                  l2TableOffset |-> l2TableOffset, l2Table |-> r1.t,
                  l2Index |-> l2Index, l2Entry |-> Zero64]
            ELSE Bind(readTable(r1.cache, f, l2TableOffset, l2Entries), LAMBDA r2 :
                 [err |-> r2.err, panic |-> FALSE, cache |-> r2.cache,
                  l2TableOffset |-> l2TableOffset, l2Table |-> r2.t,
                  l2Index |-> l2Index, l2Entry |-> TableAt(r2.t, l2Index)])))

\* "Is it a hole?" in clusterReader
IsHole(l2Entry) ==
    l2Entry = Zero64 \/ (~L2Compressed(l2Entry) /\ l2Entry[8] % 2 = 1)

\* clusterReader without its test for a hole: an entry of zero is taken
\* for a mapping to host offset 0
clusterReaderNoHole(cache, f, hdr, diskOffset) ==
    Bind(lookupL2(cache, f, hdr, diskOffset), LAMBDA l :
        [err   |-> l.err,
         panic |-> l.panic,
         cache |-> l.cache,
         kind  |-> IF L2Compressed(l.l2Entry) THEN "flate" ELSE "file",
         off   |-> OffAdd(L2Offset(l.l2Entry), diskOffset[2]),
         limit |-> clusterSize - diskOffset[2]])

\* clusterReader: the reader for the rest of the cluster at diskOffset.
\* kind "zero" is the zero reader, "file" a positioned file reader at off,
\* "flate" a DEFLATE stream (the decoder is an external collaborator and
\* its output is not modelled); all are limited to bytesRemainingInCluster.
clusterReader(cache, f, hdr, diskOffset) ==
    Bind(lookupL2(cache, f, hdr, diskOffset), LAMBDA l :
        [err   |-> l.err,
         panic |-> l.panic,
         cache |-> l.cache,
         kind  |-> IF IsHole(l.l2Entry) THEN "zero"
                   ELSE IF L2Compressed(l.l2Entry) THEN "flate" ELSE "file",
         off   |-> OffAdd(L2Offset(l.l2Entry), diskOffset[2]),
         limit |-> clusterSize - diskOffset[2]])

\* r.Read(p) on the reader clusterReader returned, len(p) = n: the bytes
\* delivered (io.LimitReader over the zero reader or the file reader)
readerRead(f, r, n) ==
    IF r.kind = "zero" THEN zeroReaderRead(min(n, r.limit))
    ELSE offsetReaderRead(f, r.off, min(n, r.limit))

\* allocateCluster that starts the new cluster on a cluster boundary
allocateClusterAligned(f) ==
    [imageOffset |-> <<f.size[1], 0>>,
     f           |-> offsetWriterWrite(f, <<f.size[1], 0>>, ZeroBuf(clusterSize))]

\* allocateCluster: seek to the end, write one cluster of zeros there
allocateCluster(f) ==
    [imageOffset |-> f.size,
     f           |-> offsetWriterWrite(f, f.size, ZeroBuf(clusterSize))]

\* diskToImageOffset
diskToImageOffset(cache, f, hdr, diskOffset) ==
    Bind(lookupL2(cache, f, hdr, diskOffset), LAMBDA l :
        [err |-> l.err, panic |-> l.panic, cache |-> l.cache,
         imageOffset |-> OffAdd(L2Offset(l.l2Entry), diskOffset[2])])

\* alignToClusterBoundary
alignToClusterBoundary(imageOffset) == Off(0, clusterSize - imageOffset[2])

\* copyCluster
copyCluster(cache, f, hdr, diskOffset) ==
    Bind(diskToImageOffset(cache, f, hdr, diskOffset), LAMBDA d :
    Bind(allocateCluster(f), LAMBDA a :
    Bind(offsetReaderRead(a.f, alignToClusterBoundary(d.imageOffset), clusterSize),
         LAMBDA data :
        [err   |-> d.err \/ data.len < clusterSize,
         panic |-> d.panic,
         cache |-> d.cache,
         f     |-> IF d.err \/ d.panic THEN f
                   ELSE offsetWriterWrite(a.f, a.imageOffset, data),
         imageOffset |-> OffAdd(a.imageOffset, d.imageOffset[2])])))

\* storeImageToDiskOffset without its writeTable: the entry is set in the
\* cached array only
storeImageToDiskOffsetCacheOnly(cache, f, hdr, imageOffset, diskOffset) ==
    Bind(lookupL2(cache, f, hdr, diskOffset), LAMBDA l :
    Bind(TableSet(l.l2Table, l.l2Index, NewL2TableEntry(imageOffset)), LAMBDA t :
        IF l.err \/ l.panic
        THEN [err |-> l.err, panic |-> l.panic, cache |-> l.cache, f |-> f]
        ELSE [err |-> FALSE, panic |-> FALSE,
              cache |-> [l.cache EXCEPT ![<<l.l2TableOffset, l2Entries>>] = t],
              f     |-> f]))

\* storeImageToDiskOffset: the L2 array readTable returned is changed in
\* place, so the cached table changes with it, and is then written back
storeImageToDiskOffset(cache, f, hdr, imageOffset, diskOffset) ==
    Bind(lookupL2(cache, f, hdr, diskOffset), LAMBDA l :
    Bind(TableSet(l.l2Table, l.l2Index, NewL2TableEntry(imageOffset)), LAMBDA t :
        IF l.err \/ l.panic
        THEN [err |-> l.err, panic |-> l.panic, cache |-> l.cache, f |-> f]
        ELSE [err |-> FALSE, panic |-> FALSE,
              cache |-> [l.cache EXCEPT ![<<l.l2TableOffset, l2Entries>>] = t],
              f     |-> writeTable(f, l.l2TableOffset, t)]))

\* the two steps that follow an allocation or a copy in clusterWriter
setAndStore(cache, f, hdr, imageOffset, diskOffset) ==
    Bind(setRefcount(cache, f, hdr, diskOffset, 1), LAMBDA s :
        IF s.err
        THEN [err |-> TRUE, panic |-> FALSE, cache |-> s.cache, f |-> s.f,
              imageOffset |-> imageOffset]
        ELSE Bind(storeImageToDiskOffset(s.cache, s.f, hdr, imageOffset, diskOffset),
                  LAMBDA st :
                 [err |-> st.err, panic |-> st.panic, cache |-> st.cache,
                  f |-> st.f, imageOffset |-> imageOffset]))

\* clusterWriter's branch for a cluster with no reference
writerAllocate(cache, f, hdr, diskOffset) ==
    Bind(allocateCluster(f), LAMBDA a :
        setAndStore(cache, a.f, hdr, a.imageOffset, diskOffset))

\* clusterWriter's branch for a cluster with one reference: in place
writerInPlace(cache, f, hdr, diskOffset) ==
    Bind(diskToImageOffset(cache, f, hdr, diskOffset), LAMBDA d :
        [err |-> d.err, panic |-> d.panic, cache |-> d.cache,
         f |-> f, imageOffset |-> d.imageOffset])

\* clusterWriter's branch for a shared cluster: copy, then as for a new one
writerCopy(cache, f, hdr, diskOffset) ==
    Bind(copyCluster(cache, f, hdr, diskOffset), LAMBDA c :
        IF c.err \/ c.panic
        THEN [err |-> c.err, panic |-> c.panic, cache |-> c.cache,
              f |-> c.f, imageOffset |-> c.imageOffset]
        ELSE setAndStore(c.cache, c.f, hdr, c.imageOffset, diskOffset))

\* clusterWriter: the file and cache after its metadata updates, and the
\* host offset at which the returned writer starts
clusterWriter(cache, f, hdr, diskOffset) ==
    Bind(getRefcount(cache, f, hdr, diskOffset), LAMBDA g :
        IF g.err
        THEN [err |-> TRUE, panic |-> FALSE, cache |-> g.cache, f |-> f,
              imageOffset |-> <<0, 0>>]
        ELSE IF g.refcount = 0 THEN writerAllocate(g.cache, f, hdr, diskOffset)
        ELSE IF g.refcount = 1 THEN writerInPlace(g.cache, f, hdr, diskOffset)
        ELSE writerCopy(g.cache, f, hdr, diskOffset))

\* L2TableEntry.Unallocated
L2Unallocated(e) == e = Zero64

\* the inner loop of incrementRefcounts over one L2 table: the allocated
\* entries with index in todo, in ascending order
RECURSIVE incrementL2(_, _, _, _, _)
incrementL2(cache, f, hdr, l1Index, todo) ==
    IF todo = {} THEN [err |-> FALSE, cache |-> cache, f |-> f]
    ELSE Bind(CHOOSE i \in todo : \A j \in todo : i <= j, LAMBDA l2Index :
         Bind(getRefcount(cache, f, hdr, <<l1Index * l2Entries + l2Index, 0>>),
              LAMBDA g :
         Bind(setRefcount(g.cache, f, hdr, <<l1Index * l2Entries + l2Index, 0>>,
                          g.refcount + 1), LAMBDA s :
             IF g.err \/ s.err
             THEN [err |-> TRUE, cache |-> s.cache, f |-> f]
             ELSE incrementL2(s.cache, s.f, hdr, l1Index, todo \ {l2Index}))))

\* Image.incrementRefcounts(l1TableOffset, l1Size), from L1 index l1Index on
RECURSIVE incrementRefcounts(_, _, _, _)
incrementRefcounts(cache, f, hdr, l1Index) ==
    Bind(readTable(cache, f, hdr.L1TableOffset, hdr.L1Size), LAMBDA r1 :
        IF r1.err THEN [err |-> TRUE, cache |-> r1.cache, f |-> f]
        ELSE IF l1Index >= hdr.L1Size
        THEN [err |-> FALSE, cache |-> r1.cache, f |-> f]
        ELSE Bind(readTable(r1.cache, f, L1Offset(TableAt(r1.t, l1Index)), l2Entries),
                  LAMBDA r2 :
             IF r2.err THEN [err |-> TRUE, cache |-> r2.cache, f |-> f]
             ELSE Bind(incrementL2(r2.cache, f, hdr, l1Index,
                                   {i \in DOMAIN r2.t.e : ~L2Unallocated(r2.t.e[i])}),
                       LAMBDA inner :
                  IF inner.err THEN inner
                  ELSE incrementRefcounts(inner.cache, inner.f, hdr, l1Index + 1))))

\* ------------------------------------------------------------------------
\* Image facade: positioned I/O.  A call either returns (status "return",
\* with its count n and err "nil", "EOF", "ErrUnexpectedEOF" or "error"),
\* panics, or loops forever (status "hang").
\* ------------------------------------------------------------------------
RECURSIVE readLoop(_, _, _, _, _, _)
readLoop(cache, f, hdr, diskOffset, remaining, acc) ==
    IF remaining <= 0
    THEN [status |-> "return", err |-> "nil", cache |-> cache, data |-> acc]
    ELSE Bind(clusterReader(cache, f, hdr, diskOffset), LAMBDA r :
         IF r.panic
         THEN [status |-> "panic", err |-> "nil", cache |-> r.cache, data |-> acc]
         ELSE IF r.err
         THEN [status |-> "return", err |-> "error", cache |-> r.cache, data |-> acc]
         ELSE IF r.kind = "flate"
         THEN [status |-> "flate", err |-> "nil", cache |-> r.cache, data |-> acc]
         ELSE Bind(readerRead(f, r, min(clusterSize, remaining)), LAMBDA got :
              IF got.len = 0
              THEN [status |-> "hang", err |-> "nil", cache |-> r.cache, data |-> acc]
              ELSE readLoop(r.cache, f, hdr, OffAdd(diskOffset, got.len),
                            remaining - got.len, BufCat(acc, got))))

\* Image.ReadAt(p, diskOffset) with len(p) = len: data is what the call
\* put at the front of p
ReadAt(cache, f, hdr, len, diskOffset) ==
    LET clipped  == OffLt(hdr.Size, OffAdd(diskOffset, len))
        negative == OffLt(hdr.Size, diskOffset)
        n        == IF ~clipped THEN len
                    ELSE IF negative THEN -1
                    ELSE OffSub(hdr.Size, diskOffset)
    IN  IF len = 0
        THEN [status |-> "return", n |-> 0, err |-> "nil", cache |-> cache,
              data |-> ZeroBuf(0)]
        ELSE IF clipped /\ negative
        THEN [status |-> "panic", n |-> 0, err |-> "nil", cache |-> cache,
              data |-> ZeroBuf(0)]
        ELSE Bind(readLoop(cache, f, hdr, diskOffset, n, ZeroBuf(0)), LAMBDA l :
             [status |-> l.status,
              n      |-> IF l.status = "return" /\ l.err = "nil" THEN n
                         ELSE l.data.len,
              err    |-> IF l.status = "return" /\ l.err = "nil" /\ clipped
                         THEN "EOF" ELSE l.err,
              cache  |-> l.cache,
              data   |-> l.data])

RECURSIVE writeLoop(_, _, _, _, _, _)
writeLoop(cache, f, hdr, diskOffset, p, n) ==
    IF p.len <= 0
    THEN [status |-> "return", n |-> n, err |-> "nil", cache |-> cache, f |-> f]
    ELSE Bind(clusterWriter(cache, f, hdr, diskOffset), LAMBDA w :
         IF w.panic
         THEN [status |-> "panic", n |-> n - p.len, err |-> "nil",
               cache |-> w.cache, f |-> w.f]
         ELSE IF w.err
         THEN [status |-> "return", n |-> n - p.len, err |-> "error",
               cache |-> w.cache, f |-> w.f]
         ELSE Bind(min(clusterSize, p.len), LAMBDA m :
              writeLoop(w.cache,
                        offsetWriterWrite(w.f, w.imageOffset, BufSlice(p, 0, m)),
                        hdr, OffAdd(diskOffset, m), BufSlice(p, m, p.len), n)))

\* the calls of Write on the backing file that WriteAt's loop makes, in
\* order: the host offset of each clusterWriter's writer and the length of
\* the slice handed to it
RECURSIVE writeIOs(_, _, _, _, _)
writeIOs(cache, f, hdr, diskOffset, p) ==
    IF p.len <= 0
    THEN <<>>
    ELSE Bind(clusterWriter(cache, f, hdr, diskOffset), LAMBDA w :
         IF w.panic \/ w.err
         THEN <<>>
         ELSE Bind(min(clusterSize, p.len), LAMBDA m :
              <<[off |-> w.imageOffset, len |-> m]>> \o
              writeIOs(w.cache,
                       offsetWriterWrite(w.f, w.imageOffset, BufSlice(p, 0, m)),
                       hdr, OffAdd(diskOffset, m), BufSlice(p, m, p.len))))

\* Image.WriteAt(p, diskOffset)
WriteAt(cache, f, hdr, p, diskOffset) ==
    IF p.len = 0
    THEN [status |-> "return", n |-> 0, err |-> "nil", cache |-> cache, f |-> f]
    ELSE IF OffLt(hdr.Size, OffAdd(diskOffset, p.len))
    THEN [status |-> "return", n |-> p.len, err |-> "ErrUnexpectedEOF",
          cache |-> cache, f |-> f]
    ELSE writeLoop(cache, f, hdr, diskOffset, p, p.len)

\* writeHeader makes the L1 table with clusterSize/8 entries and sets entry
\* i for every i below l2TableClusters: with more L2 tables than that the
\* index is out of range and the program panics before the first write
writeHeaderPanics(size) == headerFor(size).L1Size > clusterSize \div 8

\* Create(path, size): writeHeader on the new file, then Open reads the
\* header back from it
Create(size) ==
    IF writeHeaderPanics(size)
    THEN [f |-> EmptyFile, hdr |-> headerFor(size), err |-> FALSE, panic |-> TRUE]
    ELSE Bind(writeHeader(EmptyFile, size), LAMBDA file :
         Bind(readHeader(file), LAMBDA h :
             [f |-> file, hdr |-> h.hdr, err |-> h.err, panic |-> FALSE]))

\* ------------------------------------------------------------------------
\* State
\* ------------------------------------------------------------------------
VARIABLES
    f,           \* Image.f: the backing file
    hdr,         \* Image.hdr
    tableCache,  \* Image.tableCache
    cursor,      \* Image.cursor
    hist,        \* history: the WriteAt and Snapshot calls that succeeded
    last,        \* history: the last call and its outcome
    snapF,       \* history: the backing file as the last Snapshot left it
    calls,       \* history: the number of streaming calls made
    mu,          \* Image.mu: the goroutine holding it for writing (or 0),
                 \* and the goroutines holding it for reading
    cursorMu,    \* Image.cursorMu: the goroutine holding it (or 0)
    stream,      \* history: offset and count of the streaming calls made
    gor          \* per goroutine: where it is, its call, its calls so far

vars == <<f, hdr, tableCache, cursor, hist, last, snapF, calls, mu, cursorMu,
          stream, gor>>

\* ------------------------------------------------------------------------
\* Bounds and inputs
\* ------------------------------------------------------------------------
MaxOps == 3

MaxCalls == 4

\* goroutines calling into one Image, and the calls each of them makes
NumGoroutines == 2

CallsEach == 2

Goroutines == 1..NumGoroutines

\* the disk size given to Create: two clusters and one byte
DiskSizes == {<<2, 1>>}

\* buffers: the call number marks the first and the last byte, the bytes
\* between them are zero
DataByte(k) == 65 + k

EdgeBuf(n, v) == [len |-> n, nz |-> [i \in {0, n - 1} |-> v]]

\* <<offset, length>> of the WriteAt calls: the start of a cluster, inside
\* a cluster, across a cluster boundary, the last byte of the disk, across
\* the end of the disk, and a cluster and one byte
WriteInputs ==
    {<<(<<0, 0>>), 1>>, <<(<<0, 600>>), 1>>, <<(<<0, clusterSize - 1>>), 2>>,
     <<(<<2, 0>>), 1>>, <<(<<2, 0>>), 2>>, <<(<<0, 0>>), clusterSize + 1>>}

\* <<offset, length>> of the ReadAt calls: the same, the whole disk, and
\* reads that start at the end of the disk and past it
ReadInputs ==
    WriteInputs \cup
        {<<(<<0, 0>>), 2 * clusterSize + 1>>, <<(<<2, 1>>), 1>>, <<(<<2, 2>>), 1>>}

Outcome(op, off, p, r, data) ==
    [op |-> op, off |-> off, p |-> p, status |-> r.status, n |-> r.n,
     err |-> r.err, data |-> data]

\* a call that panicked or never returns ends the run of the one caller
Alive == last.status = "return"

\* ------------------------------------------------------------------------
\* Operations of one caller
\* ------------------------------------------------------------------------
\* the Image that Create(path, size) returns, no call made yet
InitWith(size) ==
    \E c \in {Create(size)} :
        /\ f = c.f
        /\ hdr = c.hdr
        /\ tableCache = EmptyCache
        /\ cursor = <<0, 0>>
        /\ hist = <<>>
        /\ last = [op |-> "Create", off |-> <<0, 0>>, p |-> ZeroBuf(0),
                   status |-> "return", n |-> 0,
                   err |-> IF c.err THEN "error" ELSE "nil",
                   data |-> ZeroBuf(0)]
        /\ snapF = EmptyFile
        /\ calls = 0
        /\ mu = [writer |-> 0, readers |-> {}]
        /\ cursorMu = 0
        /\ stream = <<>>
        /\ gor = [g \in Goroutines |->
                     [pc |-> "idle", done |-> 0, n |-> 0,
                      call |-> [op |-> "none", off |-> <<0, 0>>, len |-> 0]]]

Init == \E size \in DiskSizes : InitWith(size)

WriteAtCall(off, len) ==
    /\ Alive
    /\ Len(hist) < MaxOps
    /\ \E p \in {EdgeBuf(len, DataByte(Len(hist)))} :
       \E r \in {WriteAt(tableCache, f, hdr, p, off)} :
           /\ f' = r.f
           /\ tableCache' = r.cache
           /\ hist' = IF r.status = "return" /\ r.err = "nil"
                      THEN Append(hist, [op |-> "WriteAt", off |-> off, p |-> p])
                      ELSE hist
           /\ last' = Outcome("WriteAt", off, p, r, ZeroBuf(0))
    /\ UNCHANGED <<cursorMu, stream, hdr, cursor, snapF, calls, mu, gor>>

\* a ReadAt that allocates a cluster for what it reads
ReadAtCallAllocating(off, len) ==
    /\ Alive
    /\ \E r \in {ReadAt(tableCache, f, hdr, len, off)} :
           /\ tableCache' = r.cache
           /\ f' = allocateCluster(f).f
           /\ last' = Outcome("ReadAt", off, ZeroBuf(len), r, r.data)
    /\ UNCHANGED <<cursorMu, stream, hdr, cursor, hist, snapF, calls, mu, gor>>

ReadAtCall(off, len) ==
    /\ Alive
    /\ \E r \in {ReadAt(tableCache, f, hdr, len, off)} :
           /\ tableCache' = r.cache
           /\ last' = Outcome("ReadAt", off, ZeroBuf(len), r, r.data)
    /\ UNCHANGED <<cursorMu, stream, f, hdr, cursor, hist, snapF, calls, mu, gor>>

\* Image.Snapshot
SnapshotCall ==
    /\ Alive
    /\ Len(hist) < MaxOps
    /\ \E r \in {incrementRefcounts(tableCache, f, hdr, 0)} :
           /\ f' = r.f
           /\ tableCache' = r.cache
           /\ hist' = IF r.err THEN hist
                      ELSE Append(hist, [op |-> "Snapshot", off |-> <<0, 0>>,
                                         p |-> ZeroBuf(0)])
           /\ snapF' = IF r.err THEN snapF ELSE r.f
           /\ last' = [op |-> "Snapshot", off |-> <<0, 0>>, p |-> ZeroBuf(0),
                       status |-> "return", n |-> 0,
                       err |-> IF r.err THEN "error" ELSE "nil",
                       data |-> ZeroBuf(0)]
    /\ UNCHANGED <<cursorMu, stream, hdr, cursor, calls, mu, gor>>

\* Open(path, false): the header is read from the file again and the
\* Image starts with an empty table cache and the cursor at 0
Open(file) ==
    Bind(readHeader(file), LAMBDA h :
        [f |-> file, hdr |-> h.hdr, err |-> h.err, tableCache |-> EmptyCache,
         cursor |-> <<0, 0>>])

\* Image.Close, then Open on the same path.  Close releases the file
\* handle; WriteAt hands its bytes to the file as it goes, so the file is
\* what the calls left.
CloseOpenCall ==
    /\ Alive
    /\ \E o \in {Open(f)} :
           /\ hdr' = o.hdr
           /\ tableCache' = o.tableCache
           /\ cursor' = o.cursor
           /\ last' = [op |-> "Open", off |-> <<0, 0>>, p |-> ZeroBuf(0),
                       status |-> IF o.err THEN "error" ELSE "return", n |-> 0,
                       err |-> IF o.err THEN "error" ELSE "nil",
                       data |-> ZeroBuf(0)]
    /\ UNCHANGED <<cursorMu, stream, f, hist, snapF, calls, mu, gor>>

WriteAtStep == \E in \in WriteInputs : WriteAtCall(in[1], in[2])

ReadAtStep == \E in \in ReadInputs : ReadAtCall(in[1], in[2])

Next == WriteAtStep \/ ReadAtStep \/ SnapshotCall \/ CloseOpenCall

Spec == Init /\ [][Next]_vars

\* ------------------------------------------------------------------------
\* Streaming I/O of one caller: Image.Read and Image.Write at the cursor
\* ------------------------------------------------------------------------
\* lengths of the buffers given to Read and Write
StreamLens == {1, 600, clusterSize, clusterSize + 1}

\* Image.Read(p) with len(p) = len
ReadCall(len) ==
    /\ Alive
    /\ calls < MaxCalls
    /\ calls' = calls + 1
    /\ \E r \in {ReadAt(tableCache, f, hdr, len, cursor)} :
           /\ tableCache' = r.cache
           /\ cursor' = IF r.status = "return" THEN OffAdd(cursor, r.n) ELSE cursor
           /\ last' = Outcome("Read", cursor, ZeroBuf(len), r, r.data)
    /\ UNCHANGED <<cursorMu, stream, f, hdr, hist, snapF, mu, gor>>

\* Image.Write(p) with len(p) = len
WriteCall(len) ==
    /\ Alive
    /\ calls < MaxCalls
    /\ calls' = calls + 1
    /\ \E p \in {EdgeBuf(len, DataByte(Len(hist)))} :
       \E r \in {WriteAt(tableCache, f, hdr, p, cursor)} :
           /\ f' = r.f
           /\ tableCache' = r.cache
           /\ cursor' = IF r.status = "return" THEN OffAdd(cursor, r.n) ELSE cursor
           /\ hist' = IF r.status = "return" /\ r.err = "nil"
                      THEN Append(hist, [op |-> "Write", off |-> cursor, p |-> p])
                      ELSE hist
           /\ last' = Outcome("Write", cursor, p, r, ZeroBuf(0))
    /\ UNCHANGED <<cursorMu, stream, hdr, snapF, mu, gor>>

ReadStep == \E len \in StreamLens : ReadCall(len)

WriteStep == \E len \in StreamLens : WriteCall(len)

NextStream == ReadStep \/ WriteStep

SpecStream == Init /\ [][NextStream]_vars

\* ------------------------------------------------------------------------
\* Goroutines calling WriteAt, ReadAt, Snapshot and Sync on one Image.
\* Each call takes Image.mu (Lock or RLock), runs, and releases it on
\* return (defer); a panic in one goroutine ends the program.
\* ------------------------------------------------------------------------
ConcCalls ==
    {[op |-> "WriteAt", off |-> <<0, 0>>, len |-> 1],
     [op |-> "WriteAt", off |-> <<0, 600>>, len |-> 1],
     [op |-> "ReadAt", off |-> <<0, 0>>, len |-> 1],
     [op |-> "ReadAt", off |-> <<0, 600>>, len |-> 1],
     [op |-> "Snapshot", off |-> <<0, 0>>, len |-> 0],
     [op |-> "Sync", off |-> <<0, 0>>, len |-> 0]}

\* the calls that take mu.Lock; ReadAt takes mu.RLock
Exclusive(c) == c.op \in {"WriteAt", "Snapshot", "Sync"}

\* i.mu.Lock() at the head of WriteAt, Snapshot and Sync
Lock(g, c) ==
    /\ Alive
    /\ gor[g].pc = "idle"
    /\ gor[g].done < CallsEach
    /\ Exclusive(c)
    /\ mu.writer = 0
    /\ mu.readers = {}
    /\ mu' = [mu EXCEPT !.writer = g]
    /\ gor' = [gor EXCEPT ![g].pc = "locked", ![g].call = c]
    /\ UNCHANGED <<cursorMu, stream, f, hdr, tableCache, cursor, hist, last, snapF, calls>>

\* i.mu.RLock() at the head of ReadAt
RLock(g, c) ==
    /\ Alive
    /\ gor[g].pc = "idle"
    /\ gor[g].done < CallsEach
    /\ ~Exclusive(c)
    /\ mu.writer = 0
    /\ mu' = [mu EXCEPT !.readers = @ \cup {g}]
    /\ gor' = [gor EXCEPT ![g].pc = "locked", ![g].call = c]
    /\ UNCHANGED <<cursorMu, stream, f, hdr, tableCache, cursor, hist, last, snapF, calls>>

\* the goroutine is back from its call
Returned(g) == [gor EXCEPT ![g].pc = "idle", ![g].done = @ + 1]

\* the rest of WriteAt, and the deferred i.mu.Unlock()
WriteAtBody(g) ==
    /\ Alive
    /\ gor[g].pc = "locked"
    /\ gor[g].call.op = "WriteAt"
    /\ \E p \in {EdgeBuf(gor[g].call.len, DataByte(2 * g + gor[g].done))} :
       \E r \in {WriteAt(tableCache, f, hdr, p, gor[g].call.off)} :
           /\ f' = r.f
           /\ tableCache' = r.cache
           /\ hist' = IF r.status = "return" /\ r.err = "nil"
                      THEN Append(hist, [op |-> "WriteAt", off |-> gor[g].call.off,
                                         p |-> p])
                      ELSE hist
           /\ last' = Outcome("WriteAt", gor[g].call.off, p, r, ZeroBuf(0))
    /\ mu' = [mu EXCEPT !.writer = 0]
    /\ gor' = Returned(g)
    /\ UNCHANGED <<cursorMu, stream, hdr, cursor, snapF, calls>>

\* the rest of ReadAt, and the deferred i.mu.RUnlock()
ReadAtBody(g) ==
    /\ Alive
    /\ gor[g].pc = "locked"
    /\ gor[g].call.op = "ReadAt"
    /\ \E r \in {ReadAt(tableCache, f, hdr, gor[g].call.len, gor[g].call.off)} :
           /\ tableCache' = r.cache
           /\ last' = Outcome("ReadAt", gor[g].call.off, ZeroBuf(gor[g].call.len),
                              r, r.data)
    /\ mu' = [mu EXCEPT !.readers = @ \ {g}]
    /\ gor' = Returned(g)
    /\ UNCHANGED <<cursorMu, stream, f, hdr, cursor, hist, snapF, calls>>

\* the rest of Snapshot, and the deferred i.mu.Unlock()
SnapshotBody(g) ==
    /\ Alive
    /\ gor[g].pc = "locked"
    /\ gor[g].call.op = "Snapshot"
    /\ \E r \in {incrementRefcounts(tableCache, f, hdr, 0)} :
           /\ f' = r.f
           /\ tableCache' = r.cache
           /\ hist' = IF r.err THEN hist
                      ELSE Append(hist, [op |-> "Snapshot", off |-> <<0, 0>>,
                                         p |-> ZeroBuf(0)])
           /\ snapF' = IF r.err THEN snapF ELSE r.f
           /\ last' = [op |-> "Snapshot", off |-> <<0, 0>>, p |-> ZeroBuf(0),
                       status |-> "return", n |-> 0,
                       err |-> IF r.err THEN "error" ELSE "nil",
                       data |-> ZeroBuf(0)]
    /\ mu' = [mu EXCEPT !.writer = 0]
    /\ gor' = Returned(g)
    /\ UNCHANGED <<cursorMu, stream, hdr, cursor, calls>>

\* the rest of Sync (i.f.Sync() changes nothing a call can read back), and
\* the deferred i.mu.Unlock()
SyncBody(g) ==
    /\ Alive
    /\ gor[g].pc = "locked"
    /\ gor[g].call.op = "Sync"
    /\ last' = [op |-> "Sync", off |-> <<0, 0>>, p |-> ZeroBuf(0),
                status |-> "return", n |-> 0, err |-> "nil", data |-> ZeroBuf(0)]
    /\ mu' = [mu EXCEPT !.writer = 0]
    /\ gor' = Returned(g)
    /\ UNCHANGED <<cursorMu, stream, f, hdr, tableCache, cursor, hist, snapF, calls>>

LockStep == \E g \in Goroutines, c \in ConcCalls : Lock(g, c)

RLockStep == \E g \in Goroutines, c \in ConcCalls : RLock(g, c)

WriteAtBodyStep == \E g \in Goroutines : WriteAtBody(g)

ReadAtBodyStep == \E g \in Goroutines : ReadAtBody(g)

SnapshotBodyStep == \E g \in Goroutines : SnapshotBody(g)

SyncBodyStep == \E g \in Goroutines : SyncBody(g)

NextConc ==
    \/ LockStep
    \/ RLockStep
    \/ WriteAtBodyStep
    \/ ReadAtBodyStep
    \/ SnapshotBodyStep
    \/ SyncBodyStep

SpecConc == Init /\ [][NextConc]_vars

\* ------------------------------------------------------------------------
\* Goroutines calling the streaming Read and Write on one Image.  Each call
\* takes Image.cursorMu, passes the cursor to ReadAt or WriteAt, adds the
\* count to the cursor and releases cursorMu on return (defer).
\* ------------------------------------------------------------------------
CursorCalls ==
    {[op |-> o, off |-> <<0, 0>>, len |-> n] :
        o \in {"Read", "Write"}, n \in {1, 600, clusterSize + 1}}

\* i.cursorMu.Lock() cannot proceed while m, the holder, is a goroutine
cursorMuNoLock(m) == TRUE

cursorMuUnlocked(m) == m = 0

\* i.cursorMu.Lock() at the head of Read and Write
CursorLock(g, c) ==
    /\ Alive
    /\ gor[g].pc = "idle"
    /\ gor[g].done < CallsEach
    /\ calls < MaxCalls
    /\ cursorMuUnlocked(cursorMu)
    /\ cursorMu' = g
    /\ calls' = calls + 1
    /\ gor' = [gor EXCEPT ![g].pc = "cursorLocked", ![g].call = c]
    /\ UNCHANGED <<f, hdr, tableCache, cursor, hist, last, snapF, mu, stream>>

\* n, err = i.ReadAt(p, i.cursor) in Read
CursorReadAt(g) ==
    /\ Alive
    /\ gor[g].pc = "cursorLocked"
    /\ gor[g].call.op = "Read"
    /\ mu.writer = 0
    /\ \E r \in {ReadAt(tableCache, f, hdr, gor[g].call.len, cursor)} :
           /\ tableCache' = r.cache
           /\ last' = Outcome("Read", cursor, ZeroBuf(gor[g].call.len), r, r.data)
           /\ gor' = [gor EXCEPT ![g].pc = "ioDone", ![g].n = r.n,
                                 ![g].call.off = cursor]
    /\ UNCHANGED <<f, hdr, cursor, hist, snapF, calls, mu, cursorMu, stream>>

\* n, err = i.WriteAt(p, i.cursor) in Write
CursorWriteAt(g) ==
    /\ Alive
    /\ gor[g].pc = "cursorLocked"
    /\ gor[g].call.op = "Write"
    /\ mu.writer = 0
    /\ mu.readers = {}
    /\ \E p \in {EdgeBuf(gor[g].call.len, DataByte(2 * g + gor[g].done))} :
       \E r \in {WriteAt(tableCache, f, hdr, p, cursor)} :
           /\ f' = r.f
           /\ tableCache' = r.cache
           /\ hist' = IF r.status = "return" /\ r.err = "nil"
                      THEN Append(hist, [op |-> "Write", off |-> cursor, p |-> p])
                      ELSE hist
           /\ last' = Outcome("Write", cursor, p, r, ZeroBuf(0))
           /\ gor' = [gor EXCEPT ![g].pc = "ioDone", ![g].n = r.n,
                                 ![g].call.off = cursor]
    /\ UNCHANGED <<hdr, cursor, snapF, calls, mu, cursorMu, stream>>

\* i.cursor += int64(n), the return and the deferred i.cursorMu.Unlock()
CursorAdvance(g) ==
    /\ Alive
    /\ gor[g].pc = "ioDone"
    /\ cursor' = OffAdd(cursor, gor[g].n)
    /\ stream' = Append(stream, [g |-> g, off |-> gor[g].call.off, n |-> gor[g].n])
    /\ cursorMu' = IF cursorMu = g THEN 0 ELSE cursorMu
    /\ gor' = Returned(g)
    /\ UNCHANGED <<f, hdr, tableCache, hist, last, snapF, calls, mu>>

CursorLockStep == \E g \in Goroutines, c \in CursorCalls : CursorLock(g, c)

CursorReadAtStep == \E g \in Goroutines : CursorReadAt(g)

CursorWriteAtStep == \E g \in Goroutines : CursorWriteAt(g)

CursorAdvanceStep == \E g \in Goroutines : CursorAdvance(g)

NextCursor ==
    \/ CursorLockStep
    \/ CursorReadAtStep
    \/ CursorWriteAtStep
    \/ CursorAdvanceStep

SpecCursor == Init /\ [][NextCursor]_vars

\* ------------------------------------------------------------------------
\* One caller on a disk of 2 GiB and one byte: 32769 guest clusters, five
\* L2 tables, nine refcount blocks
\* ------------------------------------------------------------------------
BigDiskSize == <<32768, 1>>

\* <<offset, length>> of the calls: one byte in the first guest cluster,
\* in guest cluster 4096 and in guest cluster 32768
BigInputs == {<<(<<0, 0>>), 1>>, <<(<<4096, 0>>), 1>>, <<(<<32768, 0>>), 1>>}

InitBig == InitWith(BigDiskSize)

WriteAtBig == \E in \in BigInputs : WriteAtCall(in[1], in[2])

ReadAtBig == \E in \in BigInputs : ReadAtCall(in[1], in[2])

NextBig == WriteAtBig \/ ReadAtBig \/ SnapshotCall \/ CloseOpenCall

SpecBig == InitBig /\ [][NextBig]_vars

\* ------------------------------------------------------------------------
\* Open on files with other headers than the one Create writes
\* ------------------------------------------------------------------------
FeatureNameTable == <<104, 3, 248, 87>>

BitmapsExtension == <<35, 133, 40, 117>>

\* a type the library has no name for
UnknownExtension == <<18, 52, 86, 120>>

\* one header extension as the format stores it: type, length, the data,
\* zero padding up to the next multiple of 8 bytes
EncodeExtension(e) ==
    e.type \o U32(e.len) \o [i \in 1..e.len |-> 7]
           \o [i \in 1..((8 - (e.len % 8)) % 8) |-> 0]

RECURSIVE EncodeExtensions(_)
EncodeExtensions(es) ==
    IF es = <<>> THEN EndOfHeaderExtensionArea \o <<0, 0, 0, 0>>
    ELSE EncodeExtension(Head(es)) \o EncodeExtensions(Tail(es))

\* the extension areas of the files given to Open
ExtensionLists ==
    {<<>>,
     <<[type |-> FeatureNameTable, len |-> 48]>>,
     <<[type |-> BitmapsExtension, len |-> 24]>>,
     <<[type |-> UnknownExtension, len |-> 8]>>,
     <<[type |-> BackingFileFormatName, len |-> 8]>>,
     <<[type |-> ExternalDataFileName, len |-> 8]>>,
     <<[type |-> FullDiskEncryptionHeader, len |-> 16]>>,
     <<[type |-> FeatureNameTable, len |-> 48],
       [type |-> FullDiskEncryptionHeader, len |-> 16]>>,
     <<[type |-> UnknownExtension, len |-> 5],
       [type |-> FeatureNameTable, len |-> 48]>>,
     <<[type |-> UnknownExtension, len |-> 4],
       [type |-> BackingFileFormatName, len |-> 8]>>}

\* the headers of the files given to Open: the one Create writes with some
\* of the checked fields changed; with additional fields the header is 8
\* bytes longer
HeaderVariants ==
    {[headerFor(<<2, 1>>) EXCEPT !.Magic = m, !.Version = v,
                                !.BackingFileOffset = b, !.CryptMethod = c,
                                !.IncompatibleFeatures = i,
                                !.HeaderLength = l] :
        m \in {Magic, <<81, 70, 73, 250>>}, v \in {2, Version3},
        b \in {Zero64, <<0, 0, 0, 0, 0, 0, 2, 0>>}, c \in {NoEncryption, 1},
        i \in {Zero64, <<0, 0, 0, 0, 0, 0, 0, 1>>},
        l \in {HeaderLength, HeaderLength + 8}}

\* the compression type stored in the additional fields, where present
CompressionTypes == {0, 1}

\* the image Create makes with its first cluster replaced by the header h,
\* the additional fields (if h has them) and the extension area es
HeaderFile(h, ct, es) ==
    LET additional == IF h.HeaderLength > HeaderLength
                      THEN <<ct, 0, 0, 0, 0, 0, 0, 0>> ELSE <<>>
        bytes == BufOfSeq(EncodeHeader(h) \o additional \o EncodeExtensions(es))
    IN  fWriteAt(writeHeader(EmptyFile, <<2, 1>>), <<0, 0>>,
                 [len |-> clusterSize, nz |-> bytes.nz])

\* a file to open, and no Image yet
InitOpen ==
    \E h \in HeaderVariants, ct \in CompressionTypes, es \in ExtensionLists :
        /\ f = HeaderFile(h, ct, es)
        /\ hdr = h
        /\ tableCache = EmptyCache
        /\ cursor = <<0, 0>>
        /\ hist = <<>>
        /\ last = [op |-> "none", off |-> <<0, 0>>, p |-> ZeroBuf(0),
                   status |-> "return", n |-> 0, err |-> "nil",
                   data |-> ZeroBuf(0)]
        /\ snapF = EmptyFile
        /\ calls = 0
        /\ mu = [writer |-> 0, readers |-> {}]
        /\ cursorMu = 0
        /\ stream = <<>>
        /\ gor = [g \in Goroutines |->
                     [pc |-> "idle", done |-> 0, n |-> 0,
                      call |-> [op |-> "none", off |-> <<0, 0>>, len |-> 0]]]

NextOpen == CloseOpenCall

SpecOpen == InitOpen /\ [][NextOpen]_vars

\* ------------------------------------------------------------------------
\* Create for a range of disk sizes
\* ------------------------------------------------------------------------
\* whole clusters of the sizes given to Create: around one cluster, around
\* the reach of one refcount block and of one L2 table, and 2 GiB
CreateClusters ==
    (0..16) \cup (4093..4098) \cup (8189..8194) \cup (16382..16386)
        \cup (32766..32770)
        \cup ((l2Entries * l2Entries - 1)..(l2Entries * l2Entries))

\* the sizes: whole clusters, one byte more and one byte less
CreateSizes ==
    {<<c, o>> : c \in CreateClusters, o \in {0, 1, clusterSize - 1}} \ {<<0, 0>>}

\* no file and no Image yet
InitCreate ==
    /\ f = EmptyFile
    /\ hdr = headerFor(<<0, 0>>)
    /\ tableCache = EmptyCache
    /\ cursor = <<0, 0>>
    /\ hist = <<>>
    /\ last = [op |-> "none", off |-> <<0, 0>>, p |-> ZeroBuf(0),
               status |-> "return", n |-> 0, err |-> "nil", data |-> ZeroBuf(0)]
    /\ snapF = EmptyFile
    /\ calls = 0
    /\ mu = [writer |-> 0, readers |-> {}]
    /\ cursorMu = 0
    /\ stream = <<>>
    /\ gor = [g \in Goroutines |->
                 [pc |-> "idle", done |-> 0, n |-> 0,
                  call |-> [op |-> "none", off |-> <<0, 0>>, len |-> 0]]]

\* Create(path, size)
CreateCall(size) ==
    /\ last.op = "none"
    /\ \E c \in {Create(size)} :
           /\ f' = c.f
           /\ hdr' = c.hdr
           /\ last' = [op |-> "Create", off |-> size, p |-> ZeroBuf(0),
                       status |-> IF c.panic THEN "panic" ELSE "return", n |-> 0,
                       err |-> IF c.err THEN "error" ELSE "nil",
                       data |-> ZeroBuf(0)]
    /\ UNCHANGED <<tableCache, cursor, hist, snapF, calls, mu, cursorMu, stream, gor>>

NextCreate == \E size \in CreateSizes : CreateCall(size)

SpecCreate == InitCreate /\ [][NextCreate]_vars

\* ------------------------------------------------------------------------
\* The flat byte array the history describes
\* ------------------------------------------------------------------------
InRange(w, x) == OffLe(w.off, x) /\ OffLt(x, OffAdd(w.off, w.p.len))

\* the byte at disk offset x after the calls of h: the latest write
\* covering x decides, and a byte never written is zero
IsWrite(w) == w.op \in {"WriteAt", "Write"}

RECURSIVE ExpectedByte(_, _)
ExpectedByte(h, x) ==
    IF h = <<>> THEN 0
    ELSE LET w == h[Len(h)]
         IN  IF IsWrite(w) /\ InRange(w, x)
             THEN BufAt(w.p, OffSub(x, w.off))
             ELSE ExpectedByte(SubSeq(h, 1, Len(h) - 1), x)

\* the disk offsets at which some write of h put a nonzero byte
Marked(h) ==
    UNION {{OffAdd(h[i].off, j) : j \in DOMAIN h[i].p.nz} : i \in DOMAIN h}

\* the len bytes of that array from off on
Expected(h, off, len) ==
    [len |-> len,
     nz  |-> [i \in {OffSub(x, off) :
                       x \in {y \in Marked(h) : /\ OffLe(off, y)
                                                /\ OffLt(y, OffAdd(off, len))
                                                /\ ExpectedByte(h, y) # 0}} |->
                 ExpectedByte(h, OffAdd(off, i))]]

Overlap(a, b) ==
    OffLt(a.off, OffAdd(b.off, b.p.len)) /\ OffLt(b.off, OffAdd(a.off, a.p.len))

OnlyWrites(h) == \A i \in DOMAIN h : IsWrite(h[i])

PairwiseDisjoint(h) ==
    \A i, j \in DOMAIN h : i < j => ~Overlap(h[i], h[j])

\* a ReadAt issued in the current state returns all len bytes, no error,
\* and the bytes b
ReadsBack(off, b) ==
    LET r == ReadAt(tableCache, f, hdr, b.len, off)
    IN  r.status = "return" /\ r.n = b.len /\ r.err = "nil" /\ r.data = b


\* offset + len <= size
InDisk(off, len) == OffLe(OffAdd(off, len), hdr.Size)

\* what a ReadAt of the one byte at x returns on the given cache and file
ReadByte(cache, file, x) ==
    Bind(ReadAt(cache, file, hdr, 1, x), LAMBDA r :
        [status |-> r.status, n |-> r.n, err |-> r.err, data |-> r.data])

\* a wider set of <<offset, length>> than the calls of the model issue
ProbeRanges ==
    ReadInputs \cup
        {<<(<<c, o>>), n>> : c \in 0..2, o \in {0, 1, 600, clusterSize - 1},
                             n \in {1, 2, clusterSize, clusterSize + 1}}

\* ------------------------------------------------------------------------
\* Claims
\* ------------------------------------------------------------------------

\* C1: round trip.  After successful WriteAt calls on pairwise disjoint
\* ranges inside the disk (and nothing else), a ReadAt of every written
\* range returns its full length, no error and exactly the bytes written;
\* this holds right after each write and after all of them.
C1_RoundTrip ==
    (OnlyWrites(hist) /\ PairwiseDisjoint(hist)) =>
        \A i \in DOMAIN hist : ReadsBack(hist[i].off, hist[i].p)

\* C2: flat byte array.  After any sequence of successful WriteAt calls of
\* one caller (overlapping or not, no Snapshot), a ReadAt of any range
\* inside the disk returns for each byte the value of the latest write that
\* covers it and zero where no write does; as the whole disk is among the
\* ranges read, a byte changed outside the written ranges shows as well.
C2_FlatArray ==
    OnlyWrites(hist) =>
        \A in \in ReadInputs :
            InDisk(in[1], in[2]) =>
                ReadsBack(in[1], Expected(hist, in[1], in[2]))

\* no WriteAt has succeeded yet
Fresh == \A i \in DOMAIN hist : ~IsWrite(hist[i])

\* C3: sparse zero.  On an image no WriteAt has changed, a ReadAt of any
\* range inside the disk returns its full length, no error and zeros only:
\* both the ReadAt calls issued and a ReadAt of every probe range would.
C3_SparseZero ==
    Fresh =>
        /\ \A in \in ProbeRanges :
               InDisk(in[1], in[2]) => ReadsBack(in[1], ZeroBuf(in[2]))
        /\ (last.op = "ReadAt" /\ InDisk(last.off, last.p.len)) =>
               /\ last.status = "return"
               /\ last.n = last.p.len
               /\ last.err = "nil"
               /\ last.data = ZeroBuf(last.p.len)

\* a ReadAt of the whole disk has returned on an image without writes
C3_Witness ==
    /\ Fresh
    /\ last.op = "ReadAt"
    /\ last.status = "return"
    /\ last.n = 2 * clusterSize + 1

SameRange(a, b) == a.off = b.off /\ a.p.len = b.p.len

\* hist is: writes to disjoint blocks, Snapshot at k, then second writes
\* to some of those same blocks, each at most once
WritesSnapshotRewrites(k) ==
    /\ hist[k].op = "Snapshot"
    /\ \A i \in DOMAIN hist : i # k => hist[i].op = "WriteAt"
    /\ PairwiseDisjoint(SubSeq(hist, 1, k - 1))
    /\ Len(hist) > k
    /\ \A j \in (k + 1)..Len(hist) :
           /\ \E i \in 1..(k - 1) : SameRange(hist[i], hist[j])
           /\ \A j2 \in (k + 1)..Len(hist) :
                  j2 # j => ~SameRange(hist[j], hist[j2])

\* C4: copy-on-write read-back.  After writes to disjoint blocks, a
\* Snapshot and second writes of new bytes to those same blocks, a ReadAt
\* of the block written last, right after that write, returns its full
\* length and exactly the new bytes.
C4_CowReadBack ==
    \A k \in DOMAIN hist :
        (WritesSnapshotRewrites(k) /\ last.op = "WriteAt" /\ last.off = hist[Len(hist)].off
            /\ last.status = "return" /\ last.err = "nil") =>
            ReadsBack(hist[Len(hist)].off, hist[Len(hist)].p)

\* the L2 entry of guest cluster g as the file holds it
L2EntryIn(file, g) == lookupL2(EmptyCache, file, hdr, <<g, 0>>).l2Entry

\* the index in hist of the last Snapshot
LastSnapshot ==
    CHOOSE k \in DOMAIN hist :
        hist[k].op = "Snapshot" /\ \A j \in DOMAIN hist : j > k => hist[j].op = "WriteAt"

\* the writes after the last Snapshot that cover a byte of guest cluster g
WritesInto(g) ==
    {j \in DOMAIN hist :
        /\ j > LastSnapshot
        /\ hist[j].off[1] <= g
        /\ g <= OffAdd(hist[j].off, hist[j].p.len - 1)[1]}

\* the disk offsets in guest cluster g that those writes marked
MarkedInto(g) ==
    {x \in UNION {{OffAdd(hist[j].off, i) : i \in DOMAIN hist[j].p.nz} :
                    j \in WritesInto(g)} : x[1] = g}

\* C5: Snapshot retains old content.  If guest cluster g maps to host
\* cluster H when Snapshot is called, then after any later WriteAt into g
\* the file still holds at H what it held then, and the L2 entry of g
\* points at another host cluster, allocated after the Snapshot, which
\* holds the new data at the offsets written.
C5_SnapshotRetains ==
    snapF # EmptyFile =>
        \A g \in 0..hdr.Size[1] :
            LET H == L2Offset(L2EntryIn(snapF, g))
                N == L2Offset(L2EntryIn(f, g))
            IN  (L2EntryIn(snapF, g) # Zero64 /\ H[2] = 0 /\ WritesInto(g) # {}) =>
                    /\ fReadAt(f, H, clusterSize) = fReadAt(snapF, H, clusterSize)
                    /\ N[2] = 0 /\ N # H /\ OffLe(snapF.size, N)
                    /\ \A x \in MarkedInto(g) :
                           BufAt(fReadAt(f, OffAdd(N, x[2]), 1), 0) =
                               ExpectedByte(hist, x)

\* bytes of a guest cluster looked at before and after a write into it
ProbeBytes(g) == {<<g, o>> : o \in {0, 1, 5, 600, clusterSize - 1}}

\* C6: copy-on-write copies the whole old cluster.  When a WriteAt that
\* lies inside one guest cluster hits a cluster whose refcount is above 1,
\* every byte of that guest cluster outside the written range reads back
\* after the write as it did before it.
C6_CowCopiesWholeCluster ==
    [][(/\ last'.op = "WriteAt"
        /\ hist' # hist
        /\ InDisk(last'.off, last'.p.len)
        /\ OffAdd(last'.off, last'.p.len - 1)[1] = last'.off[1]
        /\ getRefcount(tableCache, f, hdr, last'.off).refcount > 1) =>
           \A x \in ProbeBytes(last'.off[1]) :
               (InDisk(x, 1) /\ ~InRange(last', x)) => ReadByte(tableCache', f', x) = ReadByte(tableCache, f, x)]_vars

\* C8: ReadAt is clipped at the end of the disk.  A ReadAt with a buffer
\* of at least one byte that reaches past the size, also one that starts
\* at the size or beyond it, returns n = max(0, size - offset) bytes and
\* the end-of-stream signal and fails in no other way; a ReadAt inside the
\* disk returns the length of the buffer and no error.
C8_ReadAtClipped ==
    (last.op = "ReadAt" /\ last.p.len > 0) =>
        IF InDisk(last.off, last.p.len)
        THEN last.status = "return" /\ last.n = last.p.len /\ last.err = "nil"
        ELSE /\ last.status = "return"
             /\ last.n = (IF OffLt(hdr.Size, last.off) THEN 0
                          ELSE OffSub(hdr.Size, last.off))
             /\ last.err = "EOF"
             /\ last.data.len = last.n

\* C9: WriteAt rejects a write that reaches past the size as a whole: it
\* returns an error and the count 0, and the backing file is as before
\* (no cluster allocated, no table or refcount changed, no byte written).
C9_WriteAtRejects ==
    [][(/\ last'.op = "WriteAt"
        /\ last'.p.len > 0
        /\ ~InDisk(last'.off, last'.p.len)) =>
           /\ last'.status = "return"
           /\ last'.err # "nil"
           /\ last'.n = 0
           /\ f' = f]_vars

\* the writes of hist are streaming Writes that follow one another from
\* offset 0 and total the size of the disk
WritesFillDisk(h) ==
    /\ h # <<>>
    /\ \A i \in DOMAIN h : h[i].op = "Write"
    /\ h[1].off = <<0, 0>>
    /\ \A i \in 1..(Len(h) - 1) : h[i + 1].off = OffAdd(h[i].off, h[i].p.len)
    /\ OffAdd(h[Len(h)].off, h[Len(h)].p.len) = hdr.Size

\* C10: streaming cursor.  The cursor of a new image is 0; a Read or Write
\* operates at the cursor and advances it by the count it returns; a Read
\* returns the next min(len, size - cursor) bytes of the disk, and at the
\* size it returns 0 and end-of-stream; once Writes that follow one another
\* from 0 total the size, the disk holds their bytes in order.
C10_StreamingCursor ==
    [][/\ (last.op = "Create" => cursor = <<0, 0>>)
       /\ last'.off = cursor
       /\ last'.status = "return"
       /\ cursor' = OffAdd(cursor, last'.n)
       /\ last'.op = "Read" =>
              /\ last'.n = min(last'.p.len, OffSub(hdr.Size, cursor))
              /\ last'.err = (IF last'.n < last'.p.len THEN "EOF" ELSE "nil")
              /\ last'.data = Expected(hist, cursor, last'.n)
       /\ WritesFillDisk(hist') =>
              ReadAt(tableCache', f', hdr, 2 * clusterSize + 1, <<0, 0>>).data
                  = Expected(hist', <<0, 0>>, 2 * clusterSize + 1)]_vars

\* the goroutines inside a call, holding Image.mu
InCall == {g \in Goroutines : gor[g].pc = "locked"}

\* the guest clusters the L2 table of the file maps
MappedClusters(file) == {g \in 0..hdr.Size[1] : L2EntryIn(file, g) # Zero64}

\* a goroutine inside WriteAt, Snapshot or Sync is alone inside a call
MutualExclusion ==
    /\ \A g \in InCall : Exclusive(gor[g].call) => InCall = {g}
    /\ (mu.writer # 0) => (mu.readers = {} /\ InCall = {mu.writer})

\* the file is the five clusters of Create and one cluster for every guest
\* cluster mapped
OneClusterPerMapping == f.size = <<5 + Cardinality(MappedClusters(f)), 0>>

\* C7: linearizable positioned I/O.  A goroutine inside WriteAt, Snapshot
\* or Sync is the only one inside any call, while goroutines inside ReadAt
\* may be several; and once concurrent calls have returned, writes to
\* pairwise disjoint ranges (also of one cluster that was not allocated)
\* all read back, and the file has grown by exactly one cluster for every
\* guest cluster mapped.
C7_Linearizable ==
    /\ MutualExclusion
    /\ (InCall = {} /\ OnlyWrites(hist)) =>
           /\ PairwiseDisjoint(hist) =>
                  \A i \in DOMAIN hist : ReadsBack(hist[i].off, hist[i].p)
           /\ OneClusterPerMapping

\* the sum of the counts the streaming calls of s returned
RECURSIVE SumCounts(_)
SumCounts(s) == IF s = <<>> THEN 0 ELSE s[Len(s)].n + SumCounts(SubSeq(s, 1, Len(s) - 1))

\* C11: consistent cursor under concurrency.  Of the streaming Read and
\* Write calls that goroutines make concurrently, each works at the cursor
\* left by the streaming call that returned before it: the first at 0, each
\* later one where the one before it ended, so the ranges are contiguous
\* and pairwise disjoint; a goroutine inside a streaming call is the only
\* one there; and the cursor the returned calls leave is the sum of their
\* counts.
C11_ConsistentCursor ==
    /\ Cardinality({g \in Goroutines : gor[g].pc # "idle"}) <= 1
    /\ \A k \in DOMAIN stream :
           stream[k].off = Off(0, SumCounts(SubSeq(stream, 1, k - 1)))
    /\ (\A g \in Goroutines : gor[g].pc = "idle") =>
           cursor = Off(0, SumCounts(stream))

\* both goroutines have returned from streaming calls that moved the cursor
C11_Witness ==
    /\ \A g \in Goroutines : gor[g].pc = "idle"
    /\ \E i, j \in DOMAIN stream :
           /\ stream[i].g # stream[j].g
           /\ stream[i].n > 0
           /\ stream[j].n > 0

\* what the caller of ReadAt sees: the outcome and the bytes
Seen(r) == [status |-> r.status, n |-> r.n, err |-> r.err, data |-> r.data]

\* the refcount read for guest cluster g
RefcountOf(cache, file, h, g) ==
    Bind(getRefcount(cache, file, h, <<g, 0>>), LAMBDA r :
        [err |-> r.err, refcount |-> r.refcount])

\* the ranges read before Close and after Open: those of the ReadAt calls
\* and single bytes in every guest cluster
ReopenProbes ==
    ReadInputs \cup
        {<<(<<c, o>>), 1>> : c \in 0..2, o \in {0, 1, 600, clusterSize - 1}}

Touched(h) ==
    {g \in 0..hdr.Size[1] :
        \E i \in DOMAIN h :
            /\ IsWrite(h[i])
            /\ h[i].off[1] <= g
            /\ g <= OffAdd(h[i].off, h[i].p.len - 1)[1]}

\* C13: refcount after plain writes.  After successful WriteAt calls and
\* no Snapshot, the refcount read for a guest cluster is 1 if some write
\* touched the cluster (once or repeatedly) and 0 if none did.
C13_RefcountAfterWrites ==
    OnlyWrites(hist) =>
        \A g \in 0..hdr.Size[1] :
            RefcountOf(tableCache, f, hdr, g) =
                [err |-> FALSE, refcount |-> IF g \in Touched(hist) THEN 1 ELSE 0]

\* C14: refcount invariant.  After Create and any sequence of completed
\* WriteAt and Snapshot calls, for every L2 entry that is allocated and not
\* compressed, with host offset H, the refcount stored for cluster number
\* H / cluster_size, read as the image reads refcounts, is at least 1.
C14_RefcountInvariant ==
    \A g \in 0..hdr.Size[1] :
        LET e == L2EntryIn(f, g)
        IN  (e # Zero64 /\ ~L2Compressed(e)) =>
                RefcountOf(tableCache, f, hdr, L2Offset(e)[1]).refcount >= 1

\* guest clusters whose refcounts and mappings are looked at
GuestProbes == {g \in {0, 1, 2, 4096, 32768} : g <= hdr.Size[1]}

\* the host clusters of the refcount blocks Create laid out
RefcountBlockClusters ==
    LET first == hdr.RefcountTableOffset[1] + hdr.RefcountTableClusters
    IN  first..(first + (hdr.Size[1] + 1) \div (clusterSize \div refcountBits))

\* the file offsets at which two files differ
Changed(a, b) ==
    {k \in DOMAIN a.bytes \cup DOMAIN b.bytes :
        fReadAt(a, k, 1) # fReadAt(b, k, 1)}

\* C15: Snapshot raises by exactly one the refcount of every guest cluster
\* whose L2 entry is allocated, leaves the refcount of every other guest
\* cluster as it was, and changes nothing else: the file keeps its length
\* and every byte outside the refcount blocks (L1 and L2 tables, data).
\* As this holds for each call, k calls in a row raise the refcounts by k.
C15_SnapshotIncrements ==
    [][(last'.op = "Snapshot" /\ last'.err = "nil") =>
           /\ \A g \in GuestProbes :
                  RefcountOf(tableCache', f', hdr, g) =
                      [err |-> FALSE,
                       refcount |-> RefcountOf(tableCache, f, hdr, g).refcount
                                      + (IF L2EntryIn(f, g) # Zero64 THEN 1 ELSE 0)]
           /\ f'.size = f.size
           /\ \A k \in Changed(f, f') : k[1] \in RefcountBlockClusters]_vars

\* C16: refcounts across copy-on-write.  When a WriteAt inside one guest
\* cluster finds the refcount r of that cluster above 1, then after the
\* write the cluster newly allocated for it has refcount 1 and the cluster
\* that held the old content has refcount r - 1, each read at its own
\* cluster number.
C16_CowRefcounts ==
    [][(/\ last'.op = "WriteAt"
        /\ hist' # hist
        /\ OffAdd(last'.off, last'.p.len - 1)[1] = last'.off[1]
        /\ RefcountOf(tableCache, f, hdr, last'.off[1]).refcount > 1) =>
           LET g == last'.off[1]
               r == RefcountOf(tableCache, f, hdr, g).refcount
               H == L2Offset(L2EntryIn(f, g))
               N == L2Offset(L2EntryIn(f', g))
           IN  /\ RefcountOf(tableCache', f', hdr, N[1]) =
                      [err |-> FALSE, refcount |-> 1]
               /\ RefcountOf(tableCache', f', hdr, H[1]) =
                      [err |-> FALSE, refcount |-> r - 1]]_vars

\* the four bytes of the file at byte i of its first cluster
Bytes4(file, i) ==
    Bind(fReadAt(file, <<0, i>>, 4), LAMBDA b :
        <<BufAt(b, 0), BufAt(b, 1), BufAt(b, 2), BufAt(b, 3)>>)

\* by the format (each extension padded to a multiple of 8 bytes): one of
\* the three extensions Open refuses stands before the end marker
RECURSIVE BlockingExtension(_, _, _)
BlockingExtension(file, pos, fuel) ==
    Bind(Bytes4(file, pos), LAMBDA type :
    Bind(IntOfU32(Bytes4(file, pos + 4)), LAMBDA length :
        IF fuel = 0 \/ type = EndOfHeaderExtensionArea THEN FALSE
        ELSE IF type \in {BackingFileFormatName, ExternalDataFileName,
                          FullDiskEncryptionHeader} THEN TRUE
        ELSE BlockingExtension(file, pos + 8 + length + ((8 - (length % 8)) % 8),
                               fuel - 1)))

\* the header in the file trips one of the checks
Trips(file) ==
    Bind(DecodeHeader(fReadAt(file, <<0, 0>>, HeaderLength)), LAMBDA h :
        \/ h.Magic # Magic
        \/ h.Version # Version3
        \/ h.BackingFileOffset # Zero64
        \/ h.CryptMethod # NoEncryption
        \/ h.IncompatibleFeatures # Zero64
        \/ (h.HeaderLength > HeaderLength
              /\ BufAt(fReadAt(file, <<0, HeaderLength>>, 1), 0) # 0)
        \/ BlockingExtension(file, h.HeaderLength, 4))

\* C17: Open validation.  Open returns an error (and no Image) for every
\* header that trips a check: wrong magic, version other than 3, a backing
\* file, encryption, incompatible features, additional fields with a
\* compression type other than DEFLATE, or a backing-file-format-name,
\* external-data-file-name or full-disk-encryption-header extension before
\* the end marker; and it accepts every header that trips none, with
\* feature-name-table, bitmaps or unknown extensions too.
C17_OpenValidation ==
    (last.op = "Open") => ((last.err # "nil") <=> Trips(f))

\* the entries of the n-entry table the file holds at offset
EntriesIn(file, offset, n) ==
    Bind(tableLoader(file, offset, n), LAMBDA l : {l.t.e[i] : i \in DOMAIN l.t.e})

\* C18: alignment invariant.  After Create and any sequence of completed
\* WriteAt and Snapshot calls, unaligned ones too, every host offset held
\* in an L1 entry, in a refcount-table entry or in an L2 entry that is not
\* compressed is a multiple of the cluster size.
C18_Alignment ==
    /\ \A e \in EntriesIn(f, hdr.L1TableOffset, hdr.L1Size) : L1Offset(e)[2] = 0
    /\ \A e \in EntriesIn(f, hdr.RefcountTableOffset,
                          (hdr.RefcountTableClusters * clusterSize) \div 8) :
           OffOfU64(MaskLow9(e))[2] = 0
    /\ \A g \in 0..hdr.Size[1] :
           ~L2Compressed(L2EntryIn(f, g)) => L2Offset(L2EntryIn(f, g))[2] = 0

CeilDiv(a, b) == (a + b - 1) \div b

\* C19: Create layout.  For every disk size, with total_clusters =
\* ceil(size / cluster_size) + 1, the header Create writes has l1_size =
\* ceil(total_clusters / l2_entries), the refcount blocks number total_rcb
\* = ceil(total_clusters / (cluster_size * 8 / 2^refcount_order)), the
\* refcount table has ceil(total_rcb * 8 / cluster_size) clusters, and the
\* file is (2 + l1_size + rct_clusters + total_rcb) clusters long.
C19_CreateLayout ==
    (last.op = "Create" /\ last.off = hdr.Size /\ hist = <<>>) =>
        LET total_clusters == hdr.Size[1] + (IF hdr.Size[2] > 0 THEN 1 ELSE 0) + 1
            l1_size        == CeilDiv(total_clusters, l2Entries)
            total_rcb      == CeilDiv(total_clusters, (clusterSize * 8) \div refcountBits)
            rct_clusters   == CeilDiv(total_rcb * 8, clusterSize)
        IN  /\ last.err = "nil"
            /\ hdr.L1Size = l1_size
            /\ hdr.RefcountTableClusters = rct_clusters
            /\ f.size = <<2 + l1_size + rct_clusters + total_rcb, 0>>

\* C20: termination.  Every ReadAt and every WriteAt on an image that
\* Create or Open accepted comes to an end: no pass of the per-cluster loop
\* transfers nothing without returning an error, and a call that returns
\* does so with the full count or with an error.
C20_Termination ==
    (last.op \in {"ReadAt", "WriteAt"}) =>
        /\ last.status # "hang"
        /\ (last.status = "return") => (last.n = last.p.len \/ last.err # "nil")

\* C21: read-only operations do not modify the file.  Open after Close,
\* ReadAt and the streaming Read leave every byte and the length of the
\* backing file as they were; reading a hole allocates nothing and changes
\* no L2 entry and no refcount.
C21_ReadOnly ==
    [][(last'.op \in {"Open", "ReadAt", "Read"}) => f' = f]_vars

\* a ReadAt of the whole disk has returned on an image with one cluster
\* mapped and two holes
C21_Witness ==
    /\ last.op = "ReadAt"
    /\ last.status = "return"
    /\ last.n = 2 * clusterSize + 1
    /\ Cardinality(MappedClusters(f)) = 1

\* the write that has just returned lies inside one guest cluster
WroteInOneCluster ==
    /\ last'.op = "WriteAt"
    /\ hist' # hist
    /\ OffAdd(last'.off, last'.p.len - 1)[1] = last'.off[1]

\* C22: unallocated clusters ignore the stored refcount.  When WriteAt
\* targets a guest cluster whose L2 entry is unallocated, whatever refcount
\* is stored for it, a new cluster is allocated at the end of the file, the
\* L2 entry points at it and the refcount reads 1: the write never goes in
\* place or by copy through an entry with host offset 0.
C22_UnallocatedIgnoresRefcount ==
    [][(WroteInOneCluster /\ L2EntryIn(f, last'.off[1]) = Zero64) =>
           /\ f'.size = OffAdd(f.size, clusterSize)
           /\ L2EntryIn(f', last'.off[1]) = NewL2TableEntry(f.size)
           /\ RefcountOf(tableCache', f', hdr, last'.off[1]) =
                  [err |-> FALSE, refcount |-> 1]
           /\ fReadAt(f', <<0, 0>>, clusterSize) = fReadAt(f, <<0, 0>>, clusterSize)]_vars

\* the host offsets of guest cluster g's bytes from off to off + len - 1,
\* in the host cluster its L2 entry in file names
HostRange(file, g, off, len) ==
    {<<L2Offset(L2EntryIn(file, g))[1], o>> : o \in off..(off + len - 1)}

\* C23: in-place overwrite.  When a WriteAt inside one guest cluster finds
\* the refcount of that cluster at exactly 1, the cluster has a host
\* cluster and the write goes into it: the file keeps its length, and the
\* only bytes that change are those of the written range in that host
\* cluster (so no L1 entry, no L2 entry and no refcount changes).
C23_InPlace ==
    [][(WroteInOneCluster
          /\ RefcountOf(tableCache, f, hdr, last'.off[1]).refcount = 1) =>
           /\ L2EntryIn(f, last'.off[1]) # Zero64
           /\ f'.size = f.size
           /\ Changed(f, f') \subseteq
                  HostRange(f, last'.off[1], last'.off[2], last'.p.len)]_vars

\* C24: per-cluster bound on I/O.  Every call of Write that a WriteAt makes
\* on the backing file stays inside one host cluster: it starts at some
\* byte of a cluster and ends at or before that cluster's last byte.
C24_PerClusterIO ==
    [][(last'.op = "WriteAt" /\ hist' # hist) =>
           \A k \in DOMAIN writeIOs(tableCache, f, hdr, last'.off, last'.p) :
               \E io \in {writeIOs(tableCache, f, hdr, last'.off, last'.p)[k]} :
                   io.off[2] + io.len <= clusterSize]_vars

\* ------------------------------------------------------------------------
\* clusterWriter one update at a time
\* ------------------------------------------------------------------------
\* One caller writes one byte; gor[1] holds its position in clusterWriter
\* and the host offset clusterWriter is working with.  The process may stop
\* between any two updates of the file; the next process opens the file as
\* it was left.
CwInputs == {<<0, 0>>, <<0, 600>>, <<2, 0>>}

CwAt(pc, off, imageOffset) ==
    [gor EXCEPT ![1] = [pc |-> pc, done |-> @.done, n |-> @.n,
                        call |-> [op |-> "WriteAt", off |-> off, len |-> 1,
                                  imageOffset |-> imageOffset]]]

\* getRefcount, then the branch's first update: allocateCluster for
\* refcount 0, copyCluster for a shared cluster; the in-place branch has no
\* update to make
CwFirst(off) ==
    /\ Alive
    /\ gor[1].pc = "idle"
    /\ calls < MaxCalls
    /\ \E g \in {getRefcount(tableCache, f, hdr, off)} :
           /\ ~g.err
           /\ \/ /\ g.refcount = 0
                 /\ \E a \in {allocateCluster(f)} :
                        /\ f' = a.f
                        /\ tableCache' = g.cache
                        /\ gor' = CwAt("allocated", off, a.imageOffset)
              \/ /\ g.refcount = 1
                 /\ \E d \in {diskToImageOffset(g.cache, f, hdr, off)} :
                        /\ ~d.err /\ ~d.panic
                        /\ f' = f
                        /\ tableCache' = d.cache
                        /\ gor' = CwAt("stored", off, d.imageOffset)
              \/ /\ g.refcount > 1
                 /\ \E c \in {copyCluster(g.cache, f, hdr, off)} :
                        /\ ~c.err /\ ~c.panic
                        /\ f' = c.f
                        /\ tableCache' = c.cache
                        /\ gor' = CwAt("allocated", off, c.imageOffset)
    /\ calls' = calls + 1
    /\ UNCHANGED <<cursorMu, stream, hdr, cursor, hist, last, snapF, mu>>

\* the update that follows allocateCluster and copyCluster in the code
CwSetRefcount ==
    /\ gor[1].pc = "allocated"
    /\ \E s \in {setRefcount(tableCache, f, hdr, gor[1].call.off, 1)} :
           /\ ~s.err
           /\ f' = s.f
           /\ tableCache' = s.cache
    /\ gor' = [gor EXCEPT ![1].pc = "refcounted"]
    /\ UNCHANGED <<cursorMu, stream, hdr, cursor, hist, last, snapF, calls, mu>>

\* the last update of the two branches
CwStore ==
    /\ gor[1].pc = "refcounted"
    /\ \E st \in {storeImageToDiskOffset(tableCache, f, hdr,
                                         gor[1].call.imageOffset,
                                         gor[1].call.off)} :
           /\ ~st.err /\ ~st.panic
           /\ f' = st.f
           /\ tableCache' = st.cache
    /\ gor' = [gor EXCEPT ![1].pc = "stored"]
    /\ UNCHANGED <<cursorMu, stream, hdr, cursor, hist, last, snapF, calls, mu>>

\* WriteAt writes the byte through the writer that clusterWriter returned
CwWrite ==
    /\ gor[1].pc = "stored"
    /\ \E p \in {EdgeBuf(1, DataByte(calls))} :
           /\ f' = offsetWriterWrite(f, gor[1].call.imageOffset, p)
           /\ hist' = Append(hist, [op |-> "WriteAt", off |-> gor[1].call.off,
                                    p |-> p])
           /\ last' = [op |-> "WriteAt", off |-> gor[1].call.off, p |-> p,
                       status |-> "return", n |-> 1, err |-> "nil",
                       data |-> ZeroBuf(0)]
    /\ gor' = [gor EXCEPT ![1].pc = "idle"]
    /\ UNCHANGED <<cursorMu, stream, hdr, tableCache, cursor, snapF, calls, mu>>

\* the process stops inside clusterWriter; the file is opened again
CwCrash ==
    /\ gor[1].pc \in {"allocated", "refcounted", "stored"}
    /\ \E o \in {Open(f)} :
           /\ ~o.err
           /\ hdr' = o.hdr
           /\ tableCache' = o.tableCache
           /\ cursor' = o.cursor
    /\ last' = [op |-> "Open", off |-> <<0, 0>>, p |-> ZeroBuf(0),
                status |-> "return", n |-> 0, err |-> "nil",
                data |-> ZeroBuf(0)]
    /\ gor' = [gor EXCEPT ![1].pc = "idle"]
    /\ UNCHANGED <<cursorMu, stream, f, hist, snapF, calls, mu>>

CwSnapshot == gor[1].pc = "idle" /\ SnapshotCall

CwFirstStep == \E off \in CwInputs : CwFirst(off)

NextCw ==
    CwFirstStep \/ CwSetRefcount \/ CwStore \/ CwWrite \/ CwCrash \/ CwSnapshot

SpecCw == Init /\ [][NextCw]_vars

\* C25: metadata update order.  At every point of a WriteAt, and after a
\* stop at any point, a guest cluster whose refcount is 1 or more has its
\* L2 entry set (the L2 entry is updated before the refcount is set), and a
\* set L2 entry names a host cluster that lies wholly inside the file (the
\* cluster is allocated before the L2 entry is updated).
C25_UpdateOrder ==
    \A g \in 0..hdr.Size[1] :
        /\ RefcountOf(tableCache, f, hdr, g).refcount >= 1 =>
               L2EntryIn(f, g) # Zero64
        /\ L2EntryIn(f, g) # Zero64 =>
               OffLe(<<L2Offset(L2EntryIn(f, g))[1] + 1, 0>>, f.size)

\* the cache key of the L2 table that maps guest cluster g
L2TableKey(file, g) ==
    <<lookupL2(EmptyCache, file, hdr, <<g, 0>>).l2TableOffset, l2Entries>>

\* the cached array under key holds the entries the file holds there
CacheAgrees(cache, file, key) ==
    \E l \in {tableLoader(file, key[1], key[2])} :
        /\ ~l.err
        /\ \A i \in DOMAIN cache[key].e \cup DOMAIN l.t.e :
               TableAt(cache[key], i) = TableAt(l.t, i)

\* every cached table agrees with the file
C26_Coherent ==
    \A key \in DOMAIN tableCache : CacheAgrees(tableCache, f, key)

\* C26: table cache invalidation.  A WriteAt inside one guest cluster that
\* changes the cluster's L2 entry ends its table accesses with writeTable
\* on that L2 table: afterwards the cache holds no entry for the table's
\* key.  And at all times a cached table agrees with the file.
C26_CacheInvalidation ==
    /\ [][(WroteInOneCluster
             /\ L2EntryIn(f', last'.off[1]) # L2EntryIn(f, last'.off[1])) =>
              L2TableKey(f, last'.off[1]) \notin DOMAIN tableCache']_vars
    /\ []C26_Coherent

\* the host offset of the refcount-block that refcount-table entry
\* number i names
RefcountBlockOffset(file, i) ==
    OffOfU64(MaskLow9(TableAt(
        tableLoader(file, hdr.RefcountTableOffset,
                    (hdr.RefcountTableClusters * clusterSize) \div 8).t, i)))

\* the byte at which the refcount of cluster c is to be: bit address
\* block_offset * 8 + block_index * refcount_width, over 8
RefcountPosition(file, c) ==
    OffAdd(RefcountBlockOffset(file, c \div ((clusterSize * 8) \div refcountBits)),
           ((c % ((clusterSize * 8) \div refcountBits)) * refcountBits) \div 8)

\* C27: refcount position.  A WriteAt inside one unallocated guest cluster
\* c, which sets the refcount of c to 1, leaves the value 1 in the
\* refcount_width-bit field at byte block_offset + block_index *
\* refcount_width / 8, and getRefcount reads the refcount of c from there.
C27_RefcountPosition ==
    [][(WroteInOneCluster /\ L2EntryIn(f, last'.off[1]) = Zero64
          /\ RefcountOf(tableCache, f, hdr, last'.off[1]).refcount = 0) =>
           /\ readBits(f', RefcountPosition(f', last'.off[1]), refcountBits).bits = 1
           /\ diskToRefcountOffset(tableCache', f', hdr, last'.off).off =
                  RefcountPosition(f', last'.off[1])]_vars

\* ------------------------------------------------------------------------
\* setRefcount and getRefcount over the range of values
\* ------------------------------------------------------------------------
\* the values given to setRefcount: the ends of the field's range and the
\* first values past it
RefcountValues ==
    {0, 1, 2 ^ refcountBits - 1, 2 ^ refcountBits, 2 ^ refcountBits + 1}

RefcountClusters == {0, 2}

\* Image.setRefcount(diskOffset, refcount) on the image as it is
SetRefcountCall(c, v) ==
    /\ Alive
    /\ \E s \in {setRefcount(tableCache, f, hdr, <<c, 0>>, v)} :
           /\ f' = s.f
           /\ tableCache' = s.cache
           /\ last' = [op |-> "setRefcount", off |-> <<c, 0>>, p |-> ZeroBuf(0),
                       status |-> "return", n |-> v,
                       err |-> IF s.err THEN "error" ELSE "nil",
                       data |-> ZeroBuf(0)]
    /\ UNCHANGED <<cursorMu, stream, hdr, cursor, hist, snapF, calls, mu, gor>>

SetRefcountStep ==
    \E c \in RefcountClusters : \E v \in RefcountValues : SetRefcountCall(c, v)

RefcountWriteStep == WriteAtCall(<<0, 0>>, 1)

NextRefcount == SetRefcountStep \/ RefcountWriteStep \/ SnapshotCall

SpecRefcount == Init /\ [][NextRefcount]_vars

\* C28: refcount value range.  setRefcount(c, v) with v < 2^refcount_width
\* succeeds and getRefcount(c) then returns v; with v >= 2^refcount_width
\* it returns an error and leaves the file as it was; and a Snapshot that
\* returns without error has raised the refcount of every mapped cluster
\* by one.
C28_ValueRange ==
    /\ [][(last'.op = "setRefcount") =>
              IF last'.n < 2 ^ refcountBits
              THEN /\ last'.err = "nil"
                   /\ RefcountOf(tableCache', f', hdr, last'.off[1]) =
                          [err |-> FALSE, refcount |-> last'.n]
              ELSE last'.err = "error" /\ f' = f]_vars
    /\ [][(last'.op = "Snapshot" /\ last'.err = "nil") =>
              \A g \in MappedClusters(f) :
                  RefcountOf(tableCache', f', hdr, g).refcount =
                      RefcountOf(tableCache, f, hdr, g).refcount + 1]_vars

\* the part of C28 inside the field's range
C28_InRange ==
    [][(last'.op = "setRefcount" /\ last'.n < 2 ^ refcountBits) =>
           /\ last'.err = "nil"
           /\ RefcountOf(tableCache', f', hdr, last'.off[1]) =
                  [err |-> FALSE, refcount |-> last'.n]]_vars

\* the Snapshot part of C28
C28_SnapshotRaises ==
    [][(last'.op = "Snapshot" /\ last'.err = "nil") =>
           \A g \in MappedClusters(f) :
               RefcountOf(tableCache', f', hdr, g).refcount =
                   RefcountOf(tableCache, f, hdr, g).refcount + 1]_vars

\* the bytes of the file that hold the refcount of cluster c: the bytes
\* readBits and writeBits use at the offset diskToRefcountOffset gives
RefcountBytes(c) ==
    {OffAdd(diskToRefcountOffset(tableCache, f, hdr, <<c, 0>>).off, k) :
        k \in 0..(((refcountBits + 7) \div 8) - 1)}

\* C29: refcount slots do not alias.  The bytes holding the refcounts of
\* two distinct clusters of the disk are disjoint and lie in the
\* refcount-block clusters that Create laid out; and a WriteAt inside one
\* guest cluster changes the refcount of no other cluster.
C29_NoAlias ==
    /\ [](\A c \in GuestProbes :
            /\ \A x \in RefcountBytes(c) : x[1] \in RefcountBlockClusters
            /\ \A d \in GuestProbes \ {c} :
                   RefcountBytes(c) \cap RefcountBytes(d) = {})
    /\ [][WroteInOneCluster =>
              \A g \in GuestProbes \ {last'.off[1]} :
                  RefcountOf(tableCache', f', hdr, g) =
                      RefcountOf(tableCache, f, hdr, g)]_vars

\* the second part of C29 alone
C29_Frame ==
    [][WroteInOneCluster =>
           \A g \in GuestProbes \ {last'.off[1]} :
               RefcountOf(tableCache', f', hdr, g) =
                   RefcountOf(tableCache, f, hdr, g)]_vars

\* the clusters Create wrote: header, L1, L2 tables, refcount table and
\* refcount blocks
MetadataClusters ==
    0..(hdr.RefcountTableOffset[1] + hdr.RefcountTableClusters +
            (hdr.Size[1] + 1) \div (clusterSize \div refcountBits))

\* the bytes of the L2 entry of guest cluster g
L2EntryBytes(g) ==
    Bind(lookupL2(EmptyCache, f, hdr, <<g, 0>>), LAMBDA l :
        {OffAdd(l.l2TableOffset, 8 * l.l2Index + k) : k \in 0..7})

\* the guest clusters the call recorded in last' targets
Targets ==
    last'.off[1]..OffAdd(last'.off, last'.p.len - 1)[1]

\* C30: metadata is never overwritten by data.  No call changes a byte of
\* cluster 0, and the only bytes of the metadata clusters that a WriteAt
\* changes are those of the L2 entries and of the refcount slots of the
\* guest clusters it targets.
C30_MetadataIntact ==
    /\ [][fReadAt(f', <<0, 0>>, clusterSize) =
              fReadAt(f, <<0, 0>>, clusterSize)]_vars
    /\ [][(last'.op = "WriteAt" /\ hist' # hist) =>
              \A x \in Changed(f, f') :
                  x[1] \in MetadataClusters =>
                      \E g \in Targets :
                          x \in L2EntryBytes(g) \cup RefcountBytes(g)]_vars

\* C31: the mapping is injective.  After any sequence of completed calls,
\* two distinct guest clusters never have L2 entries with the same host
\* offset, every set L2 entry names the first byte of a cluster that lies
\* inside the file and past the clusters Create laid out, and the length
\* of the file is a multiple of cluster_size.
C31_InjectiveMapping ==
    /\ \A g \in MappedClusters(f) :
           /\ L2Offset(L2EntryIn(f, g))[2] = 0
           /\ L2Offset(L2EntryIn(f, g))[1] \notin MetadataClusters
           /\ OffLe(<<L2Offset(L2EntryIn(f, g))[1] + 1, 0>>, f.size)
           /\ \A g2 \in MappedClusters(f) \ {g} :
                  L2Offset(L2EntryIn(f, g2)) # L2Offset(L2EntryIn(f, g))
    /\ f.size[2] = 0

\* the parts of C31 one by one
C31_Injective ==
    \A g \in MappedClusters(f) : \A g2 \in MappedClusters(f) \ {g} :
        L2Offset(L2EntryIn(f, g2))[1] # L2Offset(L2EntryIn(f, g))[1]

C31_Aligned == \A g \in MappedClusters(f) : L2Offset(L2EntryIn(f, g))[2] = 0

C31_WholeLength == f.size[2] = 0

\* ------------------------------------------------------------------------
\* Goroutines calling ReadAt, WriteAt, Snapshot and Sync on one Image,
\* under a scheduler that runs every goroutine that can run.  A call that
\* never leaves its loop never reaches its return, so it keeps the lock it
\* holds.
\* ------------------------------------------------------------------------
LiveCalls ==
    {[op |-> "WriteAt", off |-> <<0, 600>>, len |-> 1],
     [op |-> "ReadAt", off |-> <<0, clusterSize - 1>>, len |-> 2],
     [op |-> "Snapshot", off |-> <<0, 0>>, len |-> 0],
     [op |-> "Sync", off |-> <<0, 0>>, len |-> 0]}

LiveLockStep ==
    \E g \in Goroutines, c \in LiveCalls : Lock(g, c) \/ RLock(g, c)

\* ReadAt comes back from its loop
LiveReadAtStep ==
    \E g \in Goroutines : ReadAtBody(g) /\ last'.status # "hang"

NextLive ==
    \/ LiveLockStep
    \/ WriteAtBodyStep
    \/ LiveReadAtStep
    \/ SnapshotBodyStep
    \/ SyncBodyStep

\* goroutine g has begun a call that comes back: WriteAt, Snapshot and Sync
\* always do, ReadAt does unless its loop goes on for ever
CanReturn(g) ==
    /\ gor[g].pc = "locked"
    /\ gor[g].call.op = "ReadAt" =>
           ReadAt(tableCache, f, hdr, gor[g].call.len, gor[g].call.off).status # "hang"

\* some goroutine can take a step: begin a call (mu.RLock needs no writer)
\* or come back from the one it is in
LiveEnabled ==
    /\ Alive
    /\ \/ \E g \in Goroutines :
              gor[g].pc = "idle" /\ gor[g].done < CallsEach /\ mu.writer = 0
       \/ \E g \in Goroutines : CanReturn(g)

\* weak fairness of NextLive: the scheduler does not leave the goroutines
\* idle for ever while one of them can run
SpecLive ==
    Init /\ [][NextLive]_vars /\ ([]<>(~LiveEnabled) \/ []<><<NextLive>>_vars)

\* C32: deadlock freedom.  Every call that has taken the reader-writer
\* lock has a step that returns it: a call returns by its own steps alone,
\* so a state in which one cannot is a state from which that call never
\* returns and every later call for the writer lock waits for ever.
C32_DeadlockFree ==
    \A g \in Goroutines : gor[g].pc = "locked" => CanReturn(g)

\* under the fairness of SpecLive a call that can return does
C32_Returns ==
    \A g \in Goroutines : CanReturn(g) ~> (gor[g].pc = "idle")

\* the lock order alone
C32_LockOrder ==
    [][\A g \in Goroutines :
           /\ (cursorMu' = g /\ cursorMu # g) =>
                  (mu.writer # g /\ g \notin mu.readers)
           /\ (mu'.writer = g /\ mu.writer # g) => g \notin mu.readers
           /\ (g \in mu'.readers /\ g \notin mu.readers) => mu.writer # g]_vars

\* ------------------------------------------------------------------------
\* Images whose tables hold entries this program does not write itself
\* ------------------------------------------------------------------------
\* Open accepts any version 3 image.  Between Close and Open another
\* program sets one entry of the L1 table or of the L2 table that Create
\* placed at cluster 2: <<table offset, entries, index, entry>>.  The L2
\* entries: bit 63 alone, bit 0 alone, both, the offset of host cluster 1
\* without and with bit 0, a compressed entry, and zero.
ForeignEdits ==
    {<<hdr.L1TableOffset, hdr.L1Size, 0, Zero64>>} \cup
    {<<(<<2, 0>>), l2Entries, g, e>> :
        g \in {0, 2},
        e \in {Zero64,
               <<128, 0, 0, 0, 0, 0, 0, 0>>, <<0, 0, 0, 0, 0, 0, 0, 1>>,
               <<128, 0, 0, 0, 0, 0, 0, 1>>, <<128, 0, 0, 0, 0, 1, 0, 0>>,
               <<128, 0, 0, 0, 0, 1, 0, 1>>, <<192, 0, 0, 0, 0, 1, 0, 0>>}}

MaxEdits == 2

ForeignEdit(ed) ==
    /\ Alive
    /\ calls < MaxEdits
    /\ calls' = calls + 1
    /\ \E l \in {tableLoader(f, ed[1], ed[2])} :
           /\ ~l.err
           /\ \E o \in {Open(writeTable(f, ed[1], TableSet(l.t, ed[3], ed[4])))} :
                  /\ ~o.err
                  /\ f' = o.f
                  /\ hdr' = o.hdr
                  /\ tableCache' = o.tableCache
                  /\ cursor' = o.cursor
    /\ last' = [op |-> "Open", off |-> <<0, 0>>, p |-> ZeroBuf(0),
                status |-> "return", n |-> 0, err |-> "nil", data |-> ZeroBuf(0)]
    /\ UNCHANGED <<cursorMu, stream, hist, snapF, mu, gor>>

NextForeign ==
    \/ \E ed \in ForeignEdits : ForeignEdit(ed)
    \/ ReadAtStep
    \/ SnapshotCall

SpecForeign == Init /\ [][NextForeign]_vars

\* the L1 entry that covers guest cluster g, as it is in the file
L1EntryIn(file, g) ==
    TableAt(tableLoader(file, hdr.L1TableOffset, hdr.L1Size).t, g \div l2Entries)

\* C33: hole classification on read.  A ReadAt of one byte of a guest
\* cluster whose L2 entry is 0, or is not compressed and has host offset
\* 0, returns a zero byte; for every other entry that is not compressed it
\* returns the byte of the host cluster the entry names.
C33_HoleClassification ==
    (/\ last.op = "ReadAt" /\ last.p.len = 1 /\ last.status = "return"
     /\ OffLt(last.off, hdr.Size)
     /\ L1EntryIn(f, last.off[1]) # Zero64) =>
        \E e \in {L2EntryIn(f, last.off[1])} :
            IF e = Zero64 \/ (~L2Compressed(e) /\ L2Offset(e) = <<0, 0>>)
            THEN last.n = 1 /\ BufAt(last.data, 0) = 0
            ELSE ~L2Compressed(e) =>
                     /\ last.n = 1
                     /\ BufAt(last.data, 0) =
                            BufAt(fReadAt(f, OffAdd(L2Offset(e), last.off[2]), 1), 0)

\* C34: Snapshot skips empty L1 slots.  A Snapshot on an image all of whose
\* L1 entries have host offset 0 scans no L2 table: it returns without
\* error and changes no refcount and no other byte of the file.
C34_SkipsEmptyL1 ==
    [][(/\ last'.op = "Snapshot"
        /\ \A i \in 0..(hdr.L1Size - 1) :
               L1Offset(L1EntryIn(f, i * l2Entries)) = <<0, 0>>) =>
           last'.err = "nil" /\ f' = f]_vars

\* C35: L1 coverage on create.  For every disk size up to and including
\* l2_entries * l2_entries * cluster_size, Create returns without error,
\* the L1 table fits in one cluster, L1_size * l2_entries * cluster_size is
\* at least the size, and L1 entry i, for every i below L1_size, holds the
\* offset of an L2 cluster of its own that is all zero.
C35_L1Coverage ==
    (last.op = "Create" /\ OffLe(last.off, <<l2Entries * l2Entries, 0>>)) =>
        /\ last.status = "return" /\ last.err = "nil"
        /\ hdr.L1Size <= clusterSize \div 8
        /\ OffLe(hdr.Size, <<hdr.L1Size * l2Entries, 0>>)
        /\ \A i \in 0..(hdr.L1Size - 1) :
               /\ L1Offset(L1EntryIn(f, i * l2Entries)) = <<2 + i, 0>>
               /\ fReadAt(f, <<2 + i, 0>>, clusterSize) = ZeroBuf(clusterSize)

\* C35 for the sizes on which Create returns
C35_WhereCreateReturns ==
    (last.op = "Create" /\ last.status = "return") =>
        /\ last.err = "nil"
        /\ hdr.L1Size <= clusterSize \div 8
        /\ OffLe(hdr.Size, <<hdr.L1Size * l2Entries, 0>>)
        /\ \A i \in 0..(hdr.L1Size - 1) :
               /\ L1Offset(L1EntryIn(f, i * l2Entries)) = <<2 + i, 0>>
               /\ fReadAt(f, <<2 + i, 0>>, clusterSize) = ZeroBuf(clusterSize)

\* C36: cluster allocation.  On every file the calls leave, allocateCluster
\* returns the length of the file, leaves a file that is cluster_size
\* bytes longer, whose new bytes are all zero and whose old bytes are as
\* they were, and a second allocation returns an offset cluster_size
\* higher; and a WriteAt into one unallocated guest cluster makes the file
\* cluster_size bytes longer.
C36_Allocation ==
    /\ [](\E a \in {allocateCluster(f)} :
            /\ a.imageOffset = f.size
            /\ a.f.size = OffAdd(f.size, clusterSize)
            /\ fReadAt(a.f, f.size, clusterSize) = ZeroBuf(clusterSize)
            /\ Changed(f, a.f) = {}
            /\ allocateCluster(a.f).imageOffset = OffAdd(a.imageOffset, clusterSize))
    /\ [][(WroteInOneCluster /\ L2EntryIn(f, last'.off[1]) = Zero64) =>
              f'.size = OffAdd(f.size, clusterSize)]_vars

\* two WriteAt calls have each allocated a cluster, the second on a file
\* whose length was not a multiple of cluster_size
C36_Witness ==
    /\ last.op = "WriteAt" /\ last.status = "return" /\ last.err = "nil"
    /\ Cardinality(MappedClusters(f)) = 2
    /\ f.size[2] # 0

\* the fields of the header in the file pass every check Open makes
\* before it reads the extensions
FieldsPass(file) ==
    Bind(DecodeHeader(fReadAt(file, <<0, 0>>, HeaderLength)), LAMBDA h :
        /\ h.Magic = Magic
        /\ h.Version = Version3
        /\ h.BackingFileOffset = Zero64
        /\ h.CryptMethod = NoEncryption
        /\ h.IncompatibleFeatures = Zero64
        /\ (h.HeaderLength > HeaderLength =>
               BufAt(fReadAt(file, <<0, HeaderLength>>, 1), 0) = 0))

\* C38: extension parsing respects padding.  On a header whose fields pass,
\* Open reads each extension's type and length at the next multiple of 8
\* bytes after the data before it, for every data length: it returns an
\* error exactly when one of the three refused extensions stands, at such
\* a position, before the end marker.
C38_PaddedExtensions ==
    (last.op = "Open" /\ FieldsPass(f)) =>
        ((last.err # "nil") <=>
             BlockingExtension(
                 f, DecodeHeader(fReadAt(f, <<0, 0>>, HeaderLength)).HeaderLength, 4))

\* ------------------------------------------------------------------------
\* Create one write at a time
\* ------------------------------------------------------------------------
\* the next write of Create(path, size); after the last one Create closes
\* the file and opens it
CreateWrite(size) ==
    /\ \/ last.op = "none"
       \/ last.op = "Create" /\ last.status = "running" /\ last.off = size
    /\ calls' = calls + 1
    /\ \E file \in {writeHeaderPrefix(EmptyFile, size, calls + 1)} :
       \E o \in {Open(file)} :
       \E done \in {file = writeHeader(EmptyFile, size)} :
           /\ f' = file
           /\ hdr' = IF done THEN o.hdr ELSE hdr
           /\ last' = [op |-> "Create", off |-> size, p |-> ZeroBuf(0),
                       status |-> IF done THEN "return" ELSE "running",
                       n |-> 0,
                       err |-> IF done /\ o.err THEN "error" ELSE "nil",
                       data |-> ZeroBuf(0)]
    /\ UNCHANGED <<tableCache, cursor, hist, snapF, mu, cursorMu, stream, gor>>

\* Create is interrupted between two writes, and Open is called on the
\* file it left
CreateInterrupted ==
    /\ last.op = "Create" /\ last.status = "running"
    /\ \E o \in {Open(f)} :
           last' = [op |-> "Open", off |-> last.off, p |-> ZeroBuf(0),
                    status |-> "return", n |-> 0,
                    err |-> IF o.err THEN "error" ELSE "nil",
                    data |-> ZeroBuf(0)]
    /\ UNCHANGED <<f, hdr, tableCache, cursor, hist, snapF, calls, mu, cursorMu,
                   stream, gor>>

NextCreateWrites ==
    \/ \E size \in {<<c, 1>> : c \in (0..16) \cup {4096}} : CreateWrite(size)
    \/ CreateInterrupted

SpecCreateWrites == InitCreate /\ [][NextCreateWrites]_vars

====
